---------------------------- MODULE Spec2Model ----------------------------
(***************************************************************************)
(* Zudoku: a 9x9x9 Sudoku cube.  The module models the coordinate/plane    *)
(* model (types/cube.ts), the seeded generator and the bitmask validator   *)
(* (engine/generator.ts), the puzzle carver (engine/difficulty.ts) and the *)
(* game store (stores/gameStore.ts).                                       *)
(*                                                                         *)
(* JavaScript numbers are IEEE doubles.  Integers of the model are kept    *)
(* below 2^31 in every intermediate result; a number that can exceed that  *)
(* is a pair <<hi, lo>> standing for hi * 2^31 + lo.                       *)
(***************************************************************************)
EXTENDS Integers, Sequences, FiniteSets, TLC

(***************************************************************************)
(* Bounds of the model.                                                    *)
(***************************************************************************)
MaxGenSeed == 8
MaxClock == 2
MaxIndexCell == 2
MaxIndexDigit == 2
MaxCarveSolution == 1
MaxCarveSeed == 1
MaxStoreSeed == 1
MaxStoreCell == 1
MaxHistory == 2
MaxErrorTally == 1
MaxHintTally == 1
MaxPencilDigit == 1
MaxDay == 1
MaxQueryCube == 2
MaxQueryCell == 3
MaxQueryDigit == 2
MaxStrayCell == 2
MaxStrayDigit == 1
MaxEndgameMoves == 3
MaxEndgameErrors == 2
MaxLooseCell == 1
MaxLooseDigit == 2
MaxRngState == 3
MaxRngRange == 7
MaxRngCalls == 2

(***************************************************************************)
(* Program constants.                                                      *)
(***************************************************************************)
N == 9
LcgMultiplier == 1103515245
LcgIncrement == 12345
Mask31 == 2147483647

Idx == 0 .. (N - 1)
Digits == 1 .. N
Axes == {"XY", "XZ", "YZ"}
\* the value of a missing array element (no cell value, index or position)
Undefined == 0 - 1

(***************************************************************************)
(* Arithmetic on numbers of up to three limbs of 31 bits.                  *)
(***************************************************************************)
\* a + b + cin for a, b in 0..2^31-1: <<carry, sum mod 2^31>>
AddLimb(a, b, cin) ==
  LET t == a - (Mask31 - b) + cin
  IN IF t >= 1 THEN <<1, t - 1>> ELSE <<0, a + b + cin>>

\* p + q for three-limb numbers <<p2, p1, p0>>
Add3(p, q) ==
  LET s0 == AddLimb(p[3], q[3], 0)
      s1 == AddLimb(p[2], q[2], s0[1])
      s2 == AddLimb(p[1], q[1], s1[1])
  IN <<s2[2], s1[2], s0[2]>>

RECURSIVE BitLen(_)
BitLen(n) == IF n = 0 THEN 0 ELSE 1 + BitLen(n \div 2)

\* number of significant bits of a three-limb number
BitLen3(p) ==
  IF p[1] > 0 THEN 62 + BitLen(p[1])
  ELSE IF p[2] > 0 THEN 31 + BitLen(p[2])
  ELSE BitLen(p[3])

\* a * b for a, b in 0..2^31-1 as <<high limb, low limb>>: schoolbook
\* multiplication on digits of 11 bits, whose column sums stay below 2^24
MulLimb(a, b) ==
  LET a0 == a % 2048
      a1 == (a \div 2048) % 2048
      a2 == a \div 4194304
      b0 == b % 2048
      b1 == (b \div 2048) % 2048
      b2 == b \div 4194304
      c0 == a0 * b0
      c1 == a0 * b1 + a1 * b0 + (c0 \div 2048)
      c2 == a0 * b2 + a1 * b1 + a2 * b0 + (c1 \div 2048)
      c3 == a1 * b2 + a2 * b1 + (c2 \div 2048)
      c4 == a2 * b2 + (c3 \div 2048)
      d2 == c2 % 2048
  IN << (d2 \div 512) + (c3 % 2048) * 4 + (c4 % 2048) * 8192
          + (c4 \div 2048) * 16777216,
        (c0 % 2048) + (c1 % 2048) * 2048 + (d2 % 512) * 4194304 >>

\* s * m for a two-limb s and a one-limb m, as a three-limb number
Mul3(s, m) ==
  LET high == MulLimb(s[1], m)
      low == MulLimb(s[2], m)
      mid == AddLimb(high[2], low[1], 0)
  IN <<high[1] + mid[1], mid[2], low[2]>>

\* The nearest double of a positive three-limb integer: 53 significant bits,
\* ties to the even mantissa (IEEE 754 round-to-nearest-even).
RoundDouble(p) ==
  LET k == BitLen3(p) - 53
  IN IF k <= 0 THEN p
     ELSE LET unit == 2 ^ k
              rem == p[3] % unit
              base == p[3] - rem
              odd == (p[3] \div unit) % 2 = 1
              up == (2 * rem > unit) \/ (2 * rem = unit /\ odd)
          IN IF up THEN Add3(<<p[1], p[2], base>>, <<0, 0, unit>>)
             ELSE <<p[1], p[2], base>>


(***************************************************************************)
(* Loops.  ForUp runs Body(st, i) for i = lo, lo+1, ..., hi in that order  *)
(* and yields the last state.  The range is halved rather than peeled so   *)
(* that a loop of 729 passes nests ten deep; the comparison makes TLC      *)
(* compute the first half before it enters the second.                     *)
(***************************************************************************)
\* the one element of a singleton set: { e(v) : v \in {d} } computes d once
\* however often e reads v
Only(S) == CHOOSE v \in S : TRUE

RECURSIVE ForUp(_, _, _, _)
ForUp(Body(_, _), st, lo, hi) ==
  IF hi < lo THEN st
  ELSE IF hi = lo THEN Body(st, lo)
  ELSE LET mid == (lo + hi) \div 2
           first == ForUp(Body, st, lo, mid)
       IN IF first = first THEN ForUp(Body, first, mid + 1, hi) ELSE first

(***************************************************************************)
(* SeededRandom (engine/generator.ts and engine/difficulty.ts hold the     *)
(* same class; only the constructor differs).  The state this.seed is a    *)
(* two-limb number <<hi, lo>>: a numeric seed such as Date.now() exceeds   *)
(* 31 bits before the first call of next().                                *)
(***************************************************************************)
\* hash = ((hash << 5) - hash) + charCode; hash = hash & hash, on the 32-bit
\* pattern <<high 16 bits, low 16 bits>> of hash
HashStep(h, code) ==
  LET low == 31 * h[2] + code
  IN <<(31 * h[1] + (low \div 65536)) % 65536, low % 65536>>

RECURSIVE HashChars(_, _)
HashChars(chars, n) ==
  IF n = 0 THEN <<0, 0>> ELSE HashStep(HashChars(chars, n - 1), chars[n])

\* Math.abs(hash) || 1 of the signed 32-bit pattern h, as a two-limb number
AbsOrOne(h) ==
  IF h[1] < 32768
  THEN (IF h = <<0, 0>> THEN <<0, 1>> ELSE <<0, h[1] * 65536 + h[2]>>)
  ELSE IF h[2] = 0
       THEN (IF h[1] = 32768 THEN <<1, 0>> ELSE <<0, (65536 - h[1]) * 65536>>)
       ELSE <<0, (65535 - h[1]) * 65536 + (65536 - h[2])>>

\* seed arguments: a number below 2^31, a string, the omitted seed
NumberSeed(n) == [type |-> "number", num |-> <<0, n>>]
StringSeed(chars) == [type |-> "string", chars |-> chars]
NoSeed == [type |-> "undefined"]

\* new SeededRandom(seed) of generator.ts: a string seed (a sequence of char
\* codes) is hashed, a number seed (a two-limb number) is kept, 0 becomes 1
SeededRandom(seed) ==
  IF seed.type = "string"
  THEN AbsOrOne(HashChars(seed.chars, Len(seed.chars)))
  ELSE IF seed.num = <<0, 0>> THEN <<0, 1>> ELSE seed.num

\* new SeededRandom(seed) of difficulty.ts: the number is kept as it is
CarverRandom(num) == num

\* A faulty variant: the product and the sum are exact integers, as if the
\* multiplication were done in 64-bit arithmetic.
nextExact(seed) ==
  LET product == Mul3(seed, LcgMultiplier)
      total == Add3(product, <<0, 0, LcgIncrement>>)
  IN <<0, total[3]>>

\* next(): this.seed = (this.seed * 1103515245 + 12345) & 0x7fffffff.  The
\* product and the sum are doubles, each rounded to 53 bits; & keeps the low
\* 31 bits of the integer.  The result is the new state; the value returned,
\* this.seed / 0x7fffffff, is the pair's second component over Mask31.
next(seed) ==
  LET product == RoundDouble(Mul3(seed, LcgMultiplier))
      total == RoundDouble(Add3(product, <<0, 0, LcgIncrement>>))
  IN <<0, total[3]>>

\* Math.floor((s / 0x7fffffff) * n) for a state s in 0..2^31-1 and a span n
\* below 2^15.  s * n = h * 2^31 + l = h * Mask31 + (h + l); the quotient is
\* h, plus one when h + l reaches Mask31.  Mask31 is prime, so s * n / Mask31
\* is an integer only for s = 0 and s = Mask31, and otherwise lies further
\* from any integer than the rounding error of the two double operations.
FloorScaled(s, n) ==
  LET sh == s \div 65536
      sl == s % 65536
      u == (n * sh) \div 32768
      v == (n * sh) % 32768
      low == AddLimb(v * 65536, n * sl, 0)
      h == u + low[1]
      l == low[2]
  IN IF l >= Mask31 - h THEN h + 1 ELSE h

\* nextInt(min, max): <<new state, Math.floor(this.next() * (max - min)) + min>>
nextInt(seed, min, max) ==
  LET s == next(seed)
  IN <<s, FloorScaled(s[2], max - min) + min>>

\* One pass of the loop of shuffle(): swap result[i] and result[j] with
\* j = nextInt(0, i + 1).  An array is a function on 0..length-1; reading past
\* its end yields undefined and writing past its end lengthens it.
ShuffleSwap(arr, i, j) ==
  IF j \in DOMAIN arr
  THEN [arr EXCEPT ![i] = arr[j], ![j] = arr[i]]
  ELSE [k \in (DOMAIN arr) \cup {j} |->
          IF k = j THEN arr[i] ELSE IF k = i THEN Undefined ELSE arr[k]]

ShuffleIter(st, i) ==
  LET r == nextInt(st.seed, 0, i + 1)
  IN [seed |-> r[1], arr |-> ShuffleSwap(st.arr, i, r[2])]

\* shuffle(array): for (i = length - 1; i > 0; i--) ShuffleIter;
\* [seed |-> the state afterwards, arr |-> the result]
shuffle(seed, array) ==
  LET len == Cardinality(DOMAIN array)
  IN ForUp(LAMBDA st, k : ShuffleIter(st, len - k),
           [seed |-> seed, arr |-> array], 1, len - 1)

\* an array literal as a function on 0..length-1
Array(sq) == [k \in 0 .. (Len(sq) - 1) |-> sq[k + 1]]
IsPermutationOf(arr, array) ==
  /\ DOMAIN arr = DOMAIN array
  /\ \A k \in DOMAIN array : \E m \in DOMAIN arr : arr[m] = array[k]
  /\ \A k, m \in DOMAIN arr : arr[k] = arr[m] => k = m


(***************************************************************************)
(* Coordinate / plane model (types/cube.ts).  A position is a record       *)
(* [x, y, z]; a cube is indexed cube[z][y][x].                             *)
(***************************************************************************)
Positions == [x : Idx, y : Idx, z : Idx]

planeToPosition(plane, row, col) ==
  CASE plane.axis = "XY" -> [x |-> col, y |-> row, z |-> plane.index]
    [] plane.axis = "XZ" -> [x |-> col, y |-> plane.index, z |-> row]
    [] plane.axis = "YZ" -> [x |-> plane.index, y |-> col, z |-> row]

\* A faulty variant: on a YZ plane the row is taken from y and the column from z.
positionToPlaneTransposed(pos, axis) ==
  CASE axis = "XY" -> [row |-> pos.y, col |-> pos.x, index |-> pos.z]
    [] axis = "XZ" -> [row |-> pos.z, col |-> pos.x, index |-> pos.y]
    [] axis = "YZ" -> [row |-> pos.y, col |-> pos.z, index |-> pos.x]

positionToPlane(pos, axis) ==
  CASE axis = "XY" -> [row |-> pos.y, col |-> pos.x, index |-> pos.z]
    [] axis = "XZ" -> [row |-> pos.z, col |-> pos.x, index |-> pos.y]
    [] axis = "YZ" -> [row |-> pos.z, col |-> pos.y, index |-> pos.x]

getBlockIndex(row, col) == (row \div 3) * 3 + (col \div 3)

getBlockStart(row, col) == [row |-> (row \div 3) * 3, col |-> (col \div 3) * 3]

\* extractPlaneValues(values, plane)[row][col]
extractPlaneValues(values, plane) ==
  [row \in Idx |-> [col \in Idx |->
     LET pos == planeToPosition(plane, row, col)
     IN values[pos.z][pos.y][pos.x]]]

createEmptyValues == [z \in Idx |-> [y \in Idx |-> [x \in Idx |-> 0]]]

(***************************************************************************)
(* Cube generator (engine/generator.ts).                                   *)
(***************************************************************************)
\* A faulty variant: j lacks the terms py + 2 * pz.
computeCellBlockOnly(x, y, z) ==
  LET bx == x \div 3
      by == y \div 3
      bz == z \div 3
      px == x % 3
      py == y % 3
      pz == z % 3
      i == (px + py + pz) % 3
      j == (bx + by + bz) % 3
  IN i * 3 + j + 1

computeCell(x, y, z) ==
  LET bx == x \div 3
      by == y \div 3
      bz == z \div 3
      px == x % 3
      py == y % 3
      pz == z % 3
      i == (px + py + pz) % 3
      j == (bx + by + bz + py + 2 * pz) % 3
  IN i * 3 + j + 1

generateBaseCube ==
  [z \in Idx |-> [y \in Idx |-> [x \in Idx |-> computeCell(x, y, z)]]]

\* array[index] of JavaScript: undefined outside the array
Elem(array, index) == IF index \in DOMAIN array THEN array[index] ELSE Undefined

\* a shuffled [0, 1, 2] that still is an array of three indices
IsBandPerm(perm) == DOMAIN perm = 0 .. 2 /\ \A k \in 0 .. 2 : perm[k] \in 0 .. 2

\* step 1: cube[z][y][x] = digitMap[oldVal - 1]
relabelDigits(cube, digitMap) ==
  [z \in Idx |-> [y \in Idx |-> [x \in Idx |-> Elem(digitMap, cube[z][y][x] - 1)]]]

swapRowsInBand(cube, z, band, perm) ==
  LET baseRow == band * 3
      rows == [k \in 0 .. 2 |-> cube[z][baseRow + k]]
  IN [cube EXCEPT ![z] = [y \in Idx |->
        IF y \div 3 = band THEN rows[perm[y - baseRow]] ELSE cube[z][y]]]

swapColsInBand(cube, z, band, perm) ==
  LET baseCol == band * 3
  IN [cube EXCEPT ![z] = [y \in Idx |-> [x \in Idx |->
        IF x \div 3 = band
        THEN Elem([k \in 0 .. 2 |-> cube[z][y][baseCol + k]], perm[x - baseCol])
        ELSE cube[z][y][x]]]]

swapRowBands(cube, perm) ==
  [z \in Idx |-> [y \in Idx |-> cube[z][perm[y \div 3] * 3 + (y % 3)]]]

swapColBands(cube, perm) ==
  [z \in Idx |-> [y \in Idx |-> [x \in Idx |->
     cube[z][y][perm[x \div 3] * 3 + (x % 3)]]]]

swapZLayersInBand(cube, band, perm) ==
  LET baseZ == band * 3
  IN [z \in Idx |-> IF z \div 3 = band THEN cube[baseZ + perm[z - baseZ]] ELSE cube[z]]

swapZBands(cube, perm) ==
  [z \in Idx |-> cube[perm[z \div 3] * 3 + (z % 3)]]

\* A faulty variant: the rows are permuted in the first layer only, so the
\* layers stop agreeing along z.
permuteRowsInFirstLayer(cube, band, perm) == swapRowsInBand(cube, 0, band, perm)

\* for (z = 0; z < 9; z++) swapRowsInBand(cube, z, band, perm)
permuteRowsInBand(cube, band, perm) ==
  ForUp(LAMBDA c, z : swapRowsInBand(c, z, band, perm), cube, 0, N - 1)

\* for (z = 0; z < 9; z++) swapColsInBand(cube, z, band, perm)
permuteColsInBand(cube, band, perm) ==
  ForUp(LAMBDA c, z : swapColsInBand(c, z, band, perm), cube, 0, N - 1)


\* The thirteen shuffles of applyRandomTransformations in their order: step 1
\* relabels the digits, 2-4 permute the rows within band 0, 1, 2, 5-7 the
\* columns within a band, 8 the row bands, 9 the column bands, 10-12 the
\* z-layers within a band, 13 the z-bands.  A run is [cube, seed, threw]; a
\* permutation array holding undefined makes the run end in a TypeError (for
\* the rows within a band: in the step that next reads the missing row).
LastPhase == 13

\* the array each phase shuffles
phaseArray(phase) ==
  IF phase = 1 THEN Array(<<1, 2, 3, 4, 5, 6, 7, 8, 9>>) ELSE Array(<<0, 1, 2>>)

\* a row, band or layer permutation holding undefined ends the run
phaseThrows(phase, perm) ==
  phase \in (2 .. 4) \cup (8 .. 13) /\ ~IsBandPerm(perm)

phaseCube(cube, phase, perm) ==
  CASE phase = 1 -> relabelDigits(cube, perm)
    [] phase \in 2 .. 4 -> permuteRowsInBand(cube, phase - 2, perm)
    [] phase \in 5 .. 7 -> permuteColsInBand(cube, phase - 5, perm)
    [] phase = 8 -> swapRowBands(cube, perm)
    [] phase = 9 -> swapColBands(cube, perm)
    [] phase \in 10 .. 12 -> swapZLayersInBand(cube, phase - 10, perm)
    [] phase = 13 -> swapZBands(cube, perm)

transformPhase(run, phase) ==
  IF run.threw THEN run
  ELSE Only({ IF phaseThrows(phase, sh.arr)
              THEN [cube |-> run.cube, seed |-> sh.seed, threw |-> TRUE]
              ELSE [cube |-> phaseCube(run.cube, phase, sh.arr),
                    seed |-> sh.seed, threw |-> FALSE] :
              sh \in {shuffle(run.seed, phaseArray(phase))} })

applyRandomTransformations(cube, seed) ==
  ForUp(transformPhase, [cube |-> cube, seed |-> seed, threw |-> FALSE], 1, LastPhase)

\* no value occurs twice among the cells (the `seen` set of verifyCube)
NoDuplicate(cells) == \A a, b \in DOMAIN cells : cells[a] = cells[b] => a = b

\* verifyCube(cube).valid: the checks the function makes, and no others
verifyCube(cube) ==
  /\ \A z \in Idx :
       /\ \A y \in Idx :
            /\ \A x \in Idx : ~(cube[z][y][x] < 1 \/ cube[z][y][x] > 9)
            /\ NoDuplicate([x \in Idx |-> cube[z][y][x]])
       /\ \A x \in Idx : NoDuplicate([y \in Idx |-> cube[z][y][x]])
       /\ \A by, bx \in 0 .. 2 :
            NoDuplicate([k \in Idx |-> cube[z][by * 3 + (k \div 3)][bx * 3 + (k % 3)]])
  /\ \A y \in Idx :
       /\ \A x \in Idx : NoDuplicate([z \in Idx |-> cube[z][y][x]])
       /\ \A bz, bx \in 0 .. 2 :
            NoDuplicate([k \in Idx |-> cube[bz * 3 + (k \div 3)][y][bx * 3 + (k % 3)]])
  /\ \A x \in Idx :
       \A bz, by \in 0 .. 2 :
            NoDuplicate([k \in Idx |-> cube[bz * 3 + (k \div 3)][by * 3 + (k % 3)][x]])

\* new CubeGenerator(seed): this.rng = new SeededRandom(seed ?? Date.now())
CubeGenerator(seed, now) ==
  SeededRandom(IF seed.type = "undefined" THEN [type |-> "number", num |-> now] ELSE seed)

\* generateSolution(seed) called at clock reading now, that is
\* new CubeGenerator(seed).generate(): [cube, seed, threw]
generateSolution(seed, now) ==
  applyRandomTransformations(generateBaseCube, CubeGenerator(seed, now))



(***************************************************************************)
(* Cells and cubes of cells (types/cube.ts).                               *)
(***************************************************************************)
EmptyCell ==
  [value |-> 0, solution |-> 0, isGiven |-> FALSE, pencilMarks |-> {}, isError |-> FALSE]

createEmptyCube == [z \in Idx |-> [y \in Idx |-> [x \in Idx |-> EmptyCell]]]

\* the position visited k-th by for z / for y / for x
ScanPosition(k) == [x |-> k % N, y |-> (k \div N) % N, z |-> k \div (N * N)]

LastScan == N * N * N - 1

(***************************************************************************)
(* CubeValidator (engine/generator.ts).  A validator is the record of its  *)
(* three Uint16Arrays, [xy, xz, yz], each a function on 0..242; a mask is  *)
(* the integer the array element holds.                                    *)
(***************************************************************************)
MaskIndex == 0 .. (N * 27 - 1)

\* mask & (1 << value) is not zero
HasBit(mask, value) == (mask \div (2 ^ value)) % 2 = 1

\* A faulty variant: the bit is added, not or-ed.
OrBitAdded(mask, value) == mask + 2 ^ value

\* mask | (1 << value)
OrBit(mask, value) == IF HasBit(mask, value) THEN mask ELSE mask + 2 ^ value

\* A faulty variant: every bit of the mask is cleared.
AndNotBitAll(mask, value) == 0

\* mask & ~(1 << value)
AndNotBit(mask, value) == IF HasBit(mask, value) THEN mask - 2 ^ value ELSE mask

\* new CubeValidator()
NewValidator ==
  [xy |-> [i \in MaskIndex |-> 0], xz |-> [i \in MaskIndex |-> 0],
   yz |-> [i \in MaskIndex |-> 0]]

\* the private getBlockIndex of CubeValidator
CubeValidator_getBlockIndex(row, col) == (row \div 3) * 3 + (col \div 3)

\* A faulty variant: the XZ row mask is indexed by x.
MaskSlotsRowByX(x, y, z) ==
  << <<"xy", z * 27 + 0 * 9 + y>>,
     <<"xy", z * 27 + 1 * 9 + x>>,
     <<"xy", z * 27 + 2 * 9 + CubeValidator_getBlockIndex(y, x)>>,
     <<"xz", y * 27 + 0 * 9 + x>>,
     <<"xz", y * 27 + 1 * 9 + x>>,
     <<"xz", y * 27 + 2 * 9 + CubeValidator_getBlockIndex(z, x)>>,
     <<"yz", x * 27 + 0 * 9 + z>>,
     <<"yz", x * 27 + 1 * 9 + y>>,
     <<"yz", x * 27 + 2 * 9 + CubeValidator_getBlockIndex(z, y)>> >>

\* the nine masks of a cell, as the code indexes them: <<bank, index>>
MaskSlots(x, y, z) ==
  << <<"xy", z * 27 + 0 * 9 + y>>,
     <<"xy", z * 27 + 1 * 9 + x>>,
     <<"xy", z * 27 + 2 * 9 + CubeValidator_getBlockIndex(y, x)>>,
     <<"xz", y * 27 + 0 * 9 + z>>,
     <<"xz", y * 27 + 1 * 9 + x>>,
     <<"xz", y * 27 + 2 * 9 + CubeValidator_getBlockIndex(z, x)>>,
     <<"yz", x * 27 + 0 * 9 + z>>,
     <<"yz", x * 27 + 1 * 9 + y>>,
     <<"yz", x * 27 + 2 * 9 + CubeValidator_getBlockIndex(z, y)>> >>

\* this.xxMasks[i] read into | or &: an index outside the Uint16Array gives
\* undefined, which the bitwise operators take as 0
MaskRead(v, slot) == IF slot[2] \in MaskIndex THEN v[slot[1]][slot[2]] ELSE 0

\* this.xxMasks[i] = this.xxMasks[i] | bit: a Uint16Array drops a write to
\* an index outside it
OrInto(v, slot, value) ==
  IF slot[2] \in MaskIndex THEN [v EXCEPT ![slot[1]][slot[2]] = OrBit(@, value)] ELSE v

\* this.xxMasks[i] = this.xxMasks[i] & ~bit
ClearIn(v, slot, value) ==
  IF slot[2] \in MaskIndex THEN [v EXCEPT ![slot[1]][slot[2]] = AndNotBit(@, value)] ELSE v

\* addValue(x, y, z, value): the nine assignments in their order
addValue(v, x, y, z, value) ==
  Only({ ForUp(LAMBDA w, k : OrInto(w, slots[k], value), v, 1, 9) :
         slots \in {MaskSlots(x, y, z)} })

\* removeValue(x, y, z, value): the nine assignments in their order
removeValue(v, x, y, z, value) ==
  Only({ ForUp(LAMBDA w, k : ClearIn(w, slots[k], value), v, 1, 9) :
         slots \in {MaskSlots(x, y, z)} })

\* updateCell(x, y, z, oldValue, newValue)
updateCell(v, x, y, z, oldValue, newValue) ==
  Only({ IF newValue # 0 THEN addValue(w, x, y, z, newValue) ELSE w :
         w \in {IF oldValue # 0 THEN removeValue(v, x, y, z, oldValue) ELSE v} })

\* one pass of the scan of initFromCube
initFromCubeCell(cube, v, k) ==
  Only({ IF value # 0 THEN addValue(v, k % N, (k \div N) % N, k \div (N * N), value) ELSE v :
         value \in {cube[k \div (N * N)][(k \div N) % N][k % N].value} })

\* initFromCube(cube): the masks are reset, then every non-zero value is added
initFromCube(cube) ==
  ForUp(LAMBDA v, k : initFromCubeCell(cube, v, k), NewValidator, 0, LastScan)

\* A faulty variant: clearing is refused.
isValidPlacementZeroRefused(v, x, y, z, value) ==
  IF value = 0 THEN FALSE
  ELSE \A slots \in {MaskSlots(x, y, z)} :
         \A k \in 1 .. 9 : ~HasBit(MaskRead(v, slots[k]), value)

\* isValidPlacement(x, y, z, value): (row | col | block) & bit, bank by bank
isValidPlacement(v, x, y, z, value) ==
  IF value = 0 THEN TRUE
  ELSE \A slots \in {MaskSlots(x, y, z)} :
         \A k \in 1 .. 9 : ~HasBit(MaskRead(v, slots[k]), value)

\* { x, y, z }
Position(x, y, z) == [x |-> x, y |-> y, z |-> z]

\* the arrays of a sequence of arrays, one after the other
ConcatAll(arrays) == ForUp(LAMBDA acc, k : acc \o arrays[k], <<>>, 1, Len(arrays))

\* the positions addConflict is called with, in the order of the loops of
\* getConflicts
conflictVisits(x, y, z) ==
  ConcatAll(
    << ConcatAll([k \in 1 .. N |->
          (IF k - 1 # x THEN <<Position(k - 1, y, z)>> ELSE <<>>)
            \o (IF k - 1 # y THEN <<Position(x, k - 1, z)>> ELSE <<>>)]),
       ConcatAll([k \in 1 .. N |->
          Only({ IF c.x # x \/ c.y # y THEN <<c>> ELSE <<>> :
                 c \in {Position(getBlockStart(y, x).col + ((k - 1) % 3),
                                 getBlockStart(y, x).row + ((k - 1) \div 3), z)} })]),
       ConcatAll([k \in 1 .. N |->
          IF k - 1 # z THEN <<Position(x, y, k - 1)>> ELSE <<>>]),
       ConcatAll([k \in 1 .. N |->
          Only({ IF c.x # x \/ c.z # z THEN <<c>> ELSE <<>> :
                 c \in {Position(getBlockStart(z, x).col + ((k - 1) % 3), y,
                                 getBlockStart(z, x).row + ((k - 1) \div 3))} })]),
       ConcatAll([k \in 1 .. N |->
          Only({ IF c.y # y \/ c.z # z THEN <<c>> ELSE <<>> :
                 c \in {Position(x, getBlockStart(z, y).col + ((k - 1) % 3),
                                 getBlockStart(z, y).row + ((k - 1) \div 3))} })]) >>)

\* the key `${cx},${cy},${cz}` of a position: its three numbers in order
conflictKey(c) == <<c.x, c.y, c.z>>

\* A faulty variant: a cell already reported is reported again.
addConflictUnseen(st, cube, value, c) ==
  IF cube[c.z][c.y][c.x].value = value
  THEN [conflicts |-> Append(st.conflicts, c), seen |-> st.seen \cup {conflictKey(c)}]
  ELSE st

\* addConflict(cx, cy, cz) on st = [conflicts, seen]
addConflict(st, cube, value, c) ==
  IF conflictKey(c) \notin st.seen /\ cube[c.z][c.y][c.x].value = value
  THEN [conflicts |-> Append(st.conflicts, c), seen |-> st.seen \cup {conflictKey(c)}]
  ELSE st

\* getConflicts(x, y, z, value, cube): the array returned
getConflicts(x, y, z, value, cube) ==
  IF value = 0 THEN <<>>
  ELSE Only({ ForUp(LAMBDA st, k : addConflict(st, cube, value, visits[k]),
                    [conflicts |-> <<>>, seen |-> {}], 1, Len(visits)).conflicts :
              visits \in {conflictVisits(x, y, z)} })

\* getCandidates(x, y, z): the Set returned
getCandidates(v, x, y, z) == {value \in 1 .. 9 : isValidPlacement(v, x, y, z, value)}

\* the nine checks of getBlockersForValue in their order: the constraint and
\* plane a blocker is tagged with (the string 'XY-row' is the pair of its
\* parts, <<"XY", "row">>), the cells scanned in the order of the
\* loops, and which blockers found before make the check skip its push
\* ("XY": one of an XY constraint at the same position; "any": any at the
\* same position).  The mask read by check k is MaskSlots(x, y, z)[k].
blockerChecks(x, y, z) ==
  << [constraint |-> <<"XY", "row">>, plane |-> [axis |-> "XY", index |-> z], skip |-> "none",
      cells |-> [k \in 1 .. N |-> Position(k - 1, y, z)]],
     [constraint |-> <<"XY", "col">>, plane |-> [axis |-> "XY", index |-> z], skip |-> "none",
      cells |-> [k \in 1 .. N |-> Position(x, k - 1, z)]],
     [constraint |-> <<"XY", "block">>, plane |-> [axis |-> "XY", index |-> z], skip |-> "none",
      cells |-> [k \in 1 .. N |-> Position(getBlockStart(y, x).col + ((k - 1) % 3),
                                           getBlockStart(y, x).row + ((k - 1) \div 3), z)]],
     [constraint |-> <<"XZ", "row">>, plane |-> [axis |-> "XZ", index |-> y], skip |-> "XY",
      cells |-> [k \in 1 .. N |-> Position(k - 1, y, z)]],
     [constraint |-> <<"XZ", "col">>, plane |-> [axis |-> "XZ", index |-> y], skip |-> "none",
      cells |-> [k \in 1 .. N |-> Position(x, y, k - 1)]],
     [constraint |-> <<"XZ", "block">>, plane |-> [axis |-> "XZ", index |-> y], skip |-> "none",
      cells |-> [k \in 1 .. N |-> Position(getBlockStart(z, x).col + ((k - 1) % 3), y,
                                           getBlockStart(z, x).row + ((k - 1) \div 3))]],
     [constraint |-> <<"YZ", "row">>, plane |-> [axis |-> "YZ", index |-> x], skip |-> "any",
      cells |-> [k \in 1 .. N |-> Position(x, k - 1, z)]],
     [constraint |-> <<"YZ", "col">>, plane |-> [axis |-> "YZ", index |-> x], skip |-> "any",
      cells |-> [k \in 1 .. N |-> Position(x, y, k - 1)]],
     [constraint |-> <<"YZ", "block">>, plane |-> [axis |-> "YZ", index |-> x], skip |-> "none",
      cells |-> [k \in 1 .. N |-> Position(x, getBlockStart(z, y).col + ((k - 1) % 3),
                                           getBlockStart(z, y).row + ((k - 1) \div 3))]] >>

\* A faulty variant: the scan stops at the first cell that is not empty.
firstHoldingAnything(cube, cells, value) ==
  Only({ IF at = {} THEN <<>> ELSE <<cells[CHOOSE k \in at : \A j \in at : k <= j]>> :
         at \in {{k \in 1 .. Len(cells) :
                    cube[cells[k].z][cells[k].y][cells[k].x].value # 0}} })

\* the first of the cells scanned that holds value: <<>>, or <<position>>
firstHolding(cube, cells, value) ==
  Only({ IF at = {} THEN <<>> ELSE <<cells[CHOOSE k \in at : \A j \in at : k <= j]>> :
         at \in {{k \in 1 .. Len(cells) :
                    cube[cells[k].z][cells[k].y][cells[k].x].value = value}} })

\* blockers.some(b => ... same position ...) as the check's skip rule asks
alreadyFound(blockers, skip, c) ==
  \E i \in 1 .. Len(blockers) :
    /\ blockers[i].position = c
    /\ \/ skip = "any"
       \/ skip = "XY" /\ blockers[i].constraint[1] = "XY"

\* one check of getBlockersForValue: if (mask & bit), the scan, the push
blockerCheck(blockers, check, mask, value, cube) ==
  IF ~HasBit(mask, value) THEN blockers
  ELSE Only({ IF found = <<>> THEN blockers
              ELSE IF check.skip # "none" /\ alreadyFound(blockers, check.skip, found[1])
              THEN blockers
              ELSE Append(blockers, [position |-> found[1], constraint |-> check.constraint,
                                     plane |-> check.plane]) :
              found \in {firstHolding(cube, check.cells, value)} })

\* the key `${x},${y},${z}-${constraint}` of a blocker
blockerKey(b) == <<b.position.x, b.position.y, b.position.z, b.constraint>>

\* the closing loop of getBlockersForValue: the first blocker of each key
uniqueBlockers(blockers) ==
  ForUp(LAMBDA st, k :
          IF blockerKey(blockers[k]) \notin st.seen
          THEN [unique |-> Append(st.unique, blockers[k]),
                seen |-> st.seen \cup {blockerKey(blockers[k])}]
          ELSE st,
        [unique |-> <<>>, seen |-> {}], 1, Len(blockers)).unique

\* getBlockersForValue(x, y, z, value, cube); of a BlockerInfo the model keeps
\* position, constraint and plane
getBlockersForValue(v, x, y, z, value, cube) ==
  Only({ uniqueBlockers(
           ForUp(LAMBDA blockers, k :
                   blockerCheck(blockers, checks[k], v[slots[k][1]][slots[k][2]], value, cube),
                 <<>>, 1, 9)) :
         checks \in {blockerChecks(x, y, z)}, slots \in {MaskSlots(x, y, z)} })

\* getExclusions(x, y, z, cube): candidates is a set, blockedBy a function
\* from the digits blocked to their arrays of blockers
getExclusions(v, x, y, z, cube) ==
  Only({ [candidates |-> {value \in 1 .. 9 : found[value] = <<>>},
          blockedBy |-> [value \in {d \in 1 .. 9 : found[d] # <<>>} |-> found[value]]] :
         found \in {[value \in 1 .. 9 |-> getBlockersForValue(v, x, y, z, value, cube)]} })

(***************************************************************************)
(* Difficulty tiers (types/game.ts) and the puzzle carver                  *)
(* (engine/difficulty.ts).                                                 *)
(***************************************************************************)
Difficulties == {"beginner", "easy", "medium", "hard", "expert"}

DIFFICULTY_CONFIGS ==
  [d \in Difficulties |->
     CASE d = "beginner" -> [givens |-> 480, minPerPlane |-> 45, maxErrors |-> 10]
       [] d = "easy" -> [givens |-> 400, minPerPlane |-> 38, maxErrors |-> 7]
       [] d = "medium" -> [givens |-> 320, minPerPlane |-> 30, maxErrors |-> 5]
       [] d = "hard" -> [givens |-> 240, minPerPlane |-> 22, maxErrors |-> 3]
       [] d = "expert" -> [givens |-> 180, minPerPlane |-> 17, maxErrors |-> 1]]

\* countPlaneGivens(values, plane)
countPlaneGivens(values, plane) ==
  Cardinality({rc \in Idx \X Idx : extractPlaneValues(values, plane)[rc[1]][rc[2]] # 0})

\* A faulty variant: a slice standing at the floor may still lose a cell.
canRemoveCellAtFloor(puzzle, pos, minPerPlane) ==
  IF countPlaneGivens(puzzle, [axis |-> "XY", index |-> pos.z]) < minPerPlane THEN FALSE
  ELSE IF countPlaneGivens(puzzle, [axis |-> "XZ", index |-> pos.y]) < minPerPlane THEN FALSE
  ELSE IF countPlaneGivens(puzzle, [axis |-> "YZ", index |-> pos.x]) < minPerPlane THEN FALSE
  ELSE TRUE

\* A faulty variant: only the XY slice is looked at.
canRemoveCellXYOnly(puzzle, pos, minPerPlane) ==
  countPlaneGivens(puzzle, [axis |-> "XY", index |-> pos.z]) > minPerPlane

\* A faulty variant: a slice one above the floor keeps its cells too.
canRemoveCellCautious(puzzle, pos, minPerPlane) ==
  IF countPlaneGivens(puzzle, [axis |-> "XY", index |-> pos.z]) <= minPerPlane + 1 THEN FALSE
  ELSE IF countPlaneGivens(puzzle, [axis |-> "XZ", index |-> pos.y]) <= minPerPlane + 1 THEN FALSE
  ELSE IF countPlaneGivens(puzzle, [axis |-> "YZ", index |-> pos.x]) <= minPerPlane + 1 THEN FALSE
  ELSE TRUE

\* canRemoveCell(puzzle, pos, minPerPlane)
canRemoveCell(puzzle, pos, minPerPlane) ==
  IF countPlaneGivens(puzzle, [axis |-> "XY", index |-> pos.z]) <= minPerPlane THEN FALSE
  ELSE IF countPlaneGivens(puzzle, [axis |-> "XZ", index |-> pos.y]) <= minPerPlane THEN FALSE
  ELSE IF countPlaneGivens(puzzle, [axis |-> "YZ", index |-> pos.x]) <= minPerPlane THEN FALSE
  ELSE TRUE

\* allPositions: pushed for z, for y, for x.  A position object is held as
\* its place k in this array; ScanPosition(k) is its {x, y, z}.
allPositions == [k \in 0 .. LastScan |-> k]

totalCells == N * N * N

\* A faulty variant: the target is one removal too many.
cellsToRemovePlusOne(difficulty) == totalCells - DIFFICULTY_CONFIGS[difficulty].givens + 1

cellsToRemove(difficulty) == totalCells - DIFFICULTY_CONFIGS[difficulty].givens

\* The carving loop's state: [puzzle, removed, threw].  One pass of
\* for (const pos of shuffledPositions) for an element pos of the array; the
\* loop is left at `break` by passing the state on unchanged.  Reading .z of
\* an element that is undefined is a TypeError.
carveVisit(st, k, difficulty) ==
  IF st.threw \/ st.removed >= cellsToRemove(difficulty) THEN st
  ELSE IF k = Undefined THEN [st EXCEPT !.threw = TRUE]
  ELSE Only({ IF st.puzzle[pos.z][pos.y][pos.x] = 0 THEN st
              ELSE IF canRemoveCell(st.puzzle, pos,
                                    DIFFICULTY_CONFIGS[difficulty].minPerPlane)
              THEN [st EXCEPT !.puzzle[pos.z][pos.y][pos.x] = 0, !.removed = @ + 1]
              ELSE st :
              pos \in {ScanPosition(k)} })

\* A faulty variant: the solution field is copied from the carved value.
puzzleCellFromValue(value, solutionValue) ==
  [value |-> value, solution |-> value, isGiven |-> value # 0, pencilMarks |-> {},
   isError |-> FALSE]

\* cubeData[z][y][x] = {value, solution: solutionValue, isGiven: value !== 0, ...}
puzzleCell(value, solutionValue) ==
  [value |-> value, solution |-> solutionValue, isGiven |-> value # 0, pencilMarks |-> {},
   isError |-> FALSE]

\* the conversion to CubeData that ends createPuzzle
toCubeData(puzzle, solution) ==
  [z \in Idx |-> [y \in Idx |-> [x \in Idx |->
     puzzleCell(puzzle[z][y][x], solution[z][y][x])]]]

\* new SeededRandom(seed ?? Date.now()) of createPuzzle; seed is a number
\* seed or the omitted seed, now a two-limb number
\* A faulty variant: the generator is seeded from the clock whatever the seed.
carverRngFromClock(seed, now) == CarverRandom(now)

carverRng(seed, now) == CarverRandom(IF seed.type = "undefined" THEN now ELSE seed.num)

\* createPuzzle(solution, difficulty, seed) called at clock reading now:
\* [cube |-> the CubeData returned, threw |-> a TypeError ended the call]
createPuzzle(solution, difficulty, seed, now) ==
  Only({ Only({ [cube |-> toCubeData(st.puzzle, solution), threw |-> st.threw] :
                st \in {ForUp(LAMBDA c, k : carveVisit(c, Elem(sh.arr, k), difficulty),
                              [puzzle |-> solution, removed |-> 0, threw |-> FALSE],
                              0, Cardinality(DOMAIN sh.arr) - 1)} }) :
         sh \in {shuffle(carverRng(seed, now), allPositions)} })

(***************************************************************************)
(* The checks of a puzzle's progress (engine/difficulty.ts).               *)
(***************************************************************************)
\* the cell the scan for z, for y, for x reaches k-th
CellAt(cube, k) == cube[k \div (N * N)][(k \div N) % N][k % N]

\* countEmptyCells(cube)
countEmptyCells(cube) == Cardinality({k \in 0 .. LastScan : CellAt(cube, k).value = 0})

\* isPuzzleFilled(cube): the scan returns false at the first empty cell
isPuzzleFilled(cube) ==
  ForUp(LAMBDA result, k : IF ~result THEN FALSE ELSE CellAt(cube, k).value # 0,
        TRUE, 0, LastScan)

\* isPuzzleComplete(cube): the scan returns false at the first cell whose
\* value is not its solution
isPuzzleComplete(cube) ==
  ForUp(LAMBDA result, k :
          IF ~result THEN FALSE ELSE CellAt(cube, k).value = CellAt(cube, k).solution,
        TRUE, 0, LastScan)

(***************************************************************************)
(* The game store (stores/gameStore.ts).  A ref that may be null is a      *)
(* sequence: <<>> is null, <<v>> holds v.  The store is [gameState,        *)
(* validator]; of GameState the model keeps cube, difficulty,              *)
(* selectedCell, stats, history, redoStack and isComplete, and of a        *)
(* history entry everything but the timestamp.  An array of pencil marks   *)
(* is held as the set of its elements.                                     *)
(***************************************************************************)
Null == <<>>

\* createGameStats(totalEmpty)
createGameStats(totalEmpty) ==
  [errors |-> 0, hints |-> 0, cellsFilled |-> 0, totalEmpty |-> totalEmpty]

\* the char codes of the decimal numeral of n
RECURSIVE DecimalChars(_)
DecimalChars(n) ==
  IF n < 10 THEN <<48 + n>> ELSE Append(DecimalChars(n \div 10), 48 + (n % 10))

\* getDailySeed() for a Date d = [year, month, date], month counted from 0:
\* `daily_${d.getFullYear()}_${d.getMonth() + 1}_${d.getDate()}`
getDailySeed(d) ==
  StringSeed(<<100, 97, 105, 108, 121, 95>> \o DecimalChars(d.year) \o <<95>>
             \o DecimalChars(d.month + 1) \o <<95>> \o DecimalChars(d.date))

\* the body of try in newGame(diff, seed): nowG is the clock reading of
\* generateSolution, nowC that of createPuzzle.  [threw, gameState, validator]
newGameTry(diff, seed, nowG, nowC) ==
  Only({ IF solution.threw
         THEN [threw |-> TRUE, gameState |-> Null, validator |-> Null]
         ELSE Only({ IF puzzle.threw
                     THEN [threw |-> TRUE, gameState |-> Null, validator |-> Null]
                     ELSE [threw |-> FALSE,
                           gameState |-> <<[cube |-> puzzle.cube,
                                            difficulty |-> diff,
                                            selectedCell |-> Null,
                                            stats |-> createGameStats(countEmptyCells(puzzle.cube)),
                                            history |-> <<>>,
                                            redoStack |-> <<>>,
                                            isComplete |-> FALSE]>>,
                           validator |-> <<initFromCube(puzzle.cube)>>] :
                     puzzle \in {createPuzzle(solution.cube, diff,
                                              IF seed.type = "number" THEN seed ELSE NoSeed,
                                              nowC)} }) :
         solution \in {generateSolution(seed, nowG)} })

\* newGame: what the try block made is stored; a throw leaves the store as it was
newGame(store, try) ==
  IF try.threw THEN store ELSE [gameState |-> try.gameState, validator |-> try.validator]

\* A faulty variant: the count never goes down.
cellsFilledAfterNeverDown(stats, oldValue, newValue) ==
  IF oldValue = 0 /\ newValue # 0 THEN [stats EXCEPT !.cellsFilled = @ + 1]
  ELSE stats

\* the stats after a cell's value went from oldValue to newValue
cellsFilledAfter(stats, oldValue, newValue) ==
  IF oldValue = 0 /\ newValue # 0 THEN [stats EXCEPT !.cellsFilled = @ + 1]
  ELSE IF oldValue # 0 /\ newValue = 0 THEN [stats EXCEPT !.cellsFilled = @ - 1]
  ELSE stats

\* the HistoryEntry of setCellValue
valueEntry(pos, oldValue, value) ==
  [type |-> IF value = 0 THEN "clearValue" ELSE "setValue", position |-> pos,
   previousValue |-> oldValue, newValue |-> value,
   previousPencilMarks |-> Null, newPencilMarks |-> Null]

\* A faulty variant: the redo stack is kept.
placeValueKeepingRedo(store, pos, value) ==
  Only({ [gameState |->
            <<[store.gameState[1] EXCEPT
                 !.history = Append(@, valueEntry(pos, store.gameState[1].cube[pos.z][pos.y][pos.x].value, value)),
                 !.cube = newCube,
                 !.stats = cellsFilledAfter(@, store.gameState[1].cube[pos.z][pos.y][pos.x].value, value),
                 !.isComplete = IF isPuzzleComplete(newCube) THEN TRUE ELSE @]>>,
          validator |->
            <<updateCell(store.validator[1], pos.x, pos.y, pos.z,
                         store.gameState[1].cube[pos.z][pos.y][pos.x].value, value)>>] :
         newCube \in {[store.gameState[1].cube EXCEPT
                         ![pos.z][pos.y][pos.x].value = value,
                         ![pos.z][pos.y][pos.x].isError = FALSE]} })

\* setCellValue, from "Correct value or clearing" on
placeValue(store, pos, value) ==
  Only({ [gameState |->
            <<[store.gameState[1] EXCEPT
                 !.history = Append(@, valueEntry(pos, store.gameState[1].cube[pos.z][pos.y][pos.x].value, value)),
                 !.redoStack = <<>>,
                 !.cube = newCube,
                 !.stats = cellsFilledAfter(@, store.gameState[1].cube[pos.z][pos.y][pos.x].value, value),
                 !.isComplete = IF isPuzzleComplete(newCube) THEN TRUE ELSE @]>>,
          validator |->
            <<updateCell(store.validator[1], pos.x, pos.y, pos.z,
                         store.gameState[1].cube[pos.z][pos.y][pos.x].value, value)>>] :
         newCube \in {[store.gameState[1].cube EXCEPT
                         ![pos.z][pos.y][pos.x].value = value,
                         ![pos.z][pos.y][pos.x].isError = FALSE]} })

\* A faulty variant: a wrong digit is tallied and placed all the same.
setCellValueWrongPlaced(store, pos, value) ==
  IF store.gameState = Null \/ store.validator = Null THEN store
  ELSE IF store.gameState[1].cube[pos.z][pos.y][pos.x].isGiven THEN store
  ELSE IF store.gameState[1].cube[pos.z][pos.y][pos.x].value = value THEN store
  ELSE IF value # 0 /\ value # store.gameState[1].cube[pos.z][pos.y][pos.x].solution
       THEN [placeValue(store, pos, value) EXCEPT !.gameState[1].stats.errors = @ + 1]
  ELSE placeValue(store, pos, value)

\* A faulty variant: the check for a given cell is missing.
setCellValueAnyCell(store, pos, value) ==
  IF store.gameState = Null \/ store.validator = Null THEN store
  ELSE IF store.gameState[1].cube[pos.z][pos.y][pos.x].value = value THEN store
  ELSE IF value # 0 /\ value # store.gameState[1].cube[pos.z][pos.y][pos.x].solution
       THEN [store EXCEPT !.gameState[1].stats.errors = @ + 1]
  ELSE placeValue(store, pos, value)

\* setCellValue(pos, value)
setCellValue(store, pos, value) ==
  IF store.gameState = Null \/ store.validator = Null THEN store
  ELSE IF store.gameState[1].cube[pos.z][pos.y][pos.x].isGiven THEN store
  ELSE IF store.gameState[1].cube[pos.z][pos.y][pos.x].value = value THEN store
  ELSE IF value # 0 /\ value # store.gameState[1].cube[pos.z][pos.y][pos.x].solution
       THEN [store EXCEPT !.gameState[1].stats.errors = @ + 1]
  ELSE placeValue(store, pos, value)

\* togglePencilMark(pos, value)
togglePencilMark(store, pos, value) ==
  IF store.gameState = Null \/ value = 0 THEN store
  ELSE IF \/ store.gameState[1].cube[pos.z][pos.y][pos.x].isGiven
          \/ store.gameState[1].cube[pos.z][pos.y][pos.x].value # 0
       THEN store
  ELSE Only({ [store EXCEPT
                 !.gameState[1].cube[pos.z][pos.y][pos.x].pencilMarks = marks.new,
                 !.gameState[1].history =
                    Append(@, [type |-> "togglePencilMark", position |-> pos,
                               previousValue |-> 0, newValue |-> 0,
                               previousPencilMarks |-> <<marks.old>>,
                               newPencilMarks |-> <<marks.new>>]),
                 !.gameState[1].redoStack = <<>>] :
              marks \in {[old |-> store.gameState[1].cube[pos.z][pos.y][pos.x].pencilMarks,
                          new |-> IF value \in store.gameState[1].cube[pos.z][pos.y][pos.x].pencilMarks
                                  THEN store.gameState[1].cube[pos.z][pos.y][pos.x].pencilMarks \ {value}
                                  ELSE store.gameState[1].cube[pos.z][pos.y][pos.x].pencilMarks \cup {value}]} })

\* selectCell(pos): pos is Null or <<position>>
selectCell(store, pos) ==
  IF store.gameState = Null THEN store ELSE [store EXCEPT !.gameState[1].selectedCell = pos]

\* A faulty variant: the value is put back without the validator being told.
restoreValueUnindexed(store, pos, newValue) ==
  [store EXCEPT
     !.gameState[1].cube[pos.z][pos.y][pos.x].value = newValue,
     !.gameState[1].cube[pos.z][pos.y][pos.x].isError =
        newValue # 0 /\ newValue # store.gameState[1].cube[pos.z][pos.y][pos.x].solution,
     !.gameState[1].stats =
        cellsFilledAfter(@, store.gameState[1].cube[pos.z][pos.y][pos.x].value, newValue)]

\* undo and redo, the branch of a setValue or clearValue entry: the cell takes
\* newValue, the validator is updated from the cell's value to newValue
restoreValue(store, pos, newValue) ==
  [store EXCEPT
     !.gameState[1].cube[pos.z][pos.y][pos.x].value = newValue,
     !.validator[1] = updateCell(@, pos.x, pos.y, pos.z,
                                 store.gameState[1].cube[pos.z][pos.y][pos.x].value, newValue),
     !.gameState[1].cube[pos.z][pos.y][pos.x].isError =
        newValue # 0 /\ newValue # store.gameState[1].cube[pos.z][pos.y][pos.x].solution,
     !.gameState[1].stats =
        cellsFilledAfter(@, store.gameState[1].cube[pos.z][pos.y][pos.x].value, newValue)]

\* the last element of a stack and the stack without it
Top(stack) == stack[Len(stack)]
Pop(stack) == SubSeq(stack, 1, Len(stack) - 1)

\* what undo and redo do with the entry they moved: value is previousValue
\* and marks previousPencilMarks for undo, newValue and newPencilMarks for redo
applyEntry(store, entry, value, marks) ==
  IF entry.type \in {"setValue", "clearValue"}
  THEN restoreValue(store, entry.position, value)
  ELSE IF entry.type = "togglePencilMark" /\ marks # Null
  THEN [store EXCEPT
          !.gameState[1].cube[entry.position.z][entry.position.y][entry.position.x].pencilMarks
             = marks[1]]
  ELSE store

\* A faulty variant: the entry's new value is put back, not its previous one.
undoToNewValue(store) ==
  IF store.gameState = Null \/ store.validator = Null THEN store
  ELSE IF Len(store.gameState[1].history) = 0 THEN store
  ELSE applyEntry([store EXCEPT !.gameState[1].history = Pop(@),
                                !.gameState[1].redoStack =
                                   Append(@, Top(store.gameState[1].history))],
                  Top(store.gameState[1].history),
                  Top(store.gameState[1].history).newValue,
                  Top(store.gameState[1].history).newPencilMarks)

\* undo()
undo(store) ==
  IF store.gameState = Null \/ store.validator = Null THEN store
  ELSE IF Len(store.gameState[1].history) = 0 THEN store
  ELSE applyEntry([store EXCEPT !.gameState[1].history = Pop(@),
                                !.gameState[1].redoStack =
                                   Append(@, Top(store.gameState[1].history))],
                  Top(store.gameState[1].history),
                  Top(store.gameState[1].history).previousValue,
                  Top(store.gameState[1].history).previousPencilMarks)

\* redo()
redo(store) ==
  IF store.gameState = Null \/ store.validator = Null THEN store
  ELSE IF Len(store.gameState[1].redoStack) = 0 THEN store
  ELSE applyEntry([store EXCEPT !.gameState[1].redoStack = Pop(@),
                                !.gameState[1].history =
                                   Append(@, Top(store.gameState[1].redoStack))],
                  Top(store.gameState[1].redoStack),
                  Top(store.gameState[1].redoStack).newValue,
                  Top(store.gameState[1].redoStack).newPencilMarks)

\* the cell selected
selectedCellOf(store) ==
  store.gameState[1].cube[store.gameState[1].selectedCell[1].z]
                         [store.gameState[1].selectedCell[1].y]
                         [store.gameState[1].selectedCell[1].x]

\* useHint()
useHint(store) ==
  IF store.gameState = Null THEN store
  ELSE IF store.gameState[1].selectedCell = Null THEN store
  ELSE IF selectedCellOf(store).isGiven \/ selectedCellOf(store).value = selectedCellOf(store).solution
       THEN store
  ELSE Only({ [after EXCEPT !.gameState[1].stats.hints = @ + 1] :
              after \in {setCellValue(store, store.gameState[1].selectedCell[1],
                                      selectedCellOf(store).solution)} })

\* resetGame()
resetGame(store) == [gameState |-> Null, validator |-> Null]

(***************************************************************************)
(* State.                                                                  *)
(*   gen   one run of CubeGenerator.generate(): the seed argument, the     *)
(*         phase reached (0 = constructed, 1..LastPhase = the shuffle to   *)
(*         apply next, LastPhase+1 = verification pending, LastPhase+2 =   *)
(*         returned), the cube, the SeededRandom state, whether a          *)
(*         TypeError ended the run, and verifyCube's verdict               *)
(*   board      the CubeData a validator is kept in step with              *)
(*   validator  the CubeValidator: its three mask arrays                   *)
(*   probe      the updateCell calls just made on one cell: an addition to *)
(*              an empty cell, the masks before it, and whether the next   *)
(*              call took the value out again                              *)
(*   coord      one conversion of a position to plane coordinates and back *)
(*   carve      one call of createPuzzle: its arguments, the clock reading,*)
(*              the shuffled positions, the place reached in them, the     *)
(*              loop's state [puzzle, removed, threw] and the CubeData     *)
(*              returned                                                   *)
(*   twin       two calls of generateSolution, or of createPuzzle, with    *)
(*              the same arguments: the arguments, and for each call made  *)
(*              the clock reading it was made at and what it returned      *)
(*   fill       a CubeData whose cells were filled in after carving, and   *)
(*              what isPuzzleComplete returned for it                      *)
(*   gameStore  the game store: gameState and validator                    *)
(*   daily      the daily challenges started: of the last two, the date    *)
(*              and the cube the game began with                           *)
(*   query      the last call made on the validator kept with `board`: the *)
(*              method, its arguments and what it returned                 *)
(***************************************************************************)
VARIABLES gen, board, validator, probe, coord, carve, twin, fill, gameStore, daily, query

vars == <<gen, board, validator, probe, coord, carve, twin, fill, gameStore, daily, query>>

TwinIdle ==
  [call |-> "none", solution |-> createEmptyValues, difficulty |-> "medium",
   seed |-> NoSeed, first |-> Null, second |-> Null]

FillIdle == [stage |-> "idle", cube |-> createEmptyCube, complete |-> FALSE]

StoreNull == [gameState |-> Null, validator |-> Null]

CoordIdle ==
  [stage |-> "idle", pos |-> [x |-> 0, y |-> 0, z |-> 0], axis |-> "XY",
   plane |-> [row |-> 0, col |-> 0, index |-> 0], back |-> [x |-> 0, y |-> 0, z |-> 0]]

CarveIdle ==
  [phase |-> "idle", solution |-> createEmptyValues, difficulty |-> "medium",
   seed |-> NoSeed, now |-> <<0, 0>>, shuffledPositions |-> allPositions, next |-> 0,
   run |-> [puzzle |-> createEmptyValues, removed |-> 0, threw |-> FALSE],
   cubeData |-> createEmptyCube]

ProbeIdle == [stage |-> "idle"]

QueryIdle == [op |-> "none"]

\* Date.now() in milliseconds, as a two-limb number (November 2026)
ClockTimes == {<<835, 364000000 + t>> : t \in 1 .. MaxClock}

\* what a call given a seed is handed for the clock: seed ?? Date.now() does
\* not read it
ClockUnread == <<0, 0>>


\* the seed arguments of the model: seed omitted, the numbers 0..MaxGenSeed
GenSeedArgs == {NoSeed} \cup {NumberSeed(n) : n \in 0 .. MaxGenSeed}

GenIdle ==
  [arg |-> NoSeed, phase |-> 0, cube |-> createEmptyValues, seed |-> <<0, 1>>,
   threw |-> FALSE, valid |-> FALSE]

(***************************************************************************)
(* The generator, one shuffle per step.                                    *)
(***************************************************************************)
GenInit ==
  /\ \E arg \in GenSeedArgs, now \in ClockTimes :
       gen = [GenIdle EXCEPT !.arg = arg, !.seed = CubeGenerator(arg, now)]
  /\ board = createEmptyCube
  /\ validator = NewValidator
  /\ probe = ProbeIdle
  /\ twin = TwinIdle
  /\ fill = FillIdle
  /\ gameStore = StoreNull
  /\ daily = <<>>
  /\ query = QueryIdle
  /\ coord = CoordIdle
  /\ carve = CarveIdle

\* const cube = generateBaseCube()
GenerateBase ==
  /\ gen.phase = 0
  /\ gen' = [gen EXCEPT !.phase = 1, !.cube = generateBaseCube]
  /\ UNCHANGED <<board, validator, probe, coord, carve, twin, fill, gameStore, daily, query>>

GenStep(phases) ==
  /\ gen.phase \in phases
  /\ \E run \in {transformPhase([cube |-> gen.cube, seed |-> gen.seed,
                                   threw |-> gen.threw], gen.phase)} :
       gen' = [gen EXCEPT !.phase = IF run.threw THEN LastPhase + 2 ELSE gen.phase + 1,
                          !.cube = run.cube, !.seed = run.seed, !.threw = run.threw]
  /\ UNCHANGED <<board, validator, probe, coord, carve, twin, fill, gameStore, daily, query>>

RelabelDigits == GenStep({1})
PermuteRowsInBand == GenStep(2 .. 4)
PermuteColsInBand == GenStep(5 .. 7)
PermuteRowBands == GenStep({8})
PermuteColBands == GenStep({9})
PermuteZLayersInBand == GenStep(10 .. 12)
PermuteZBands == GenStep({13})

\* const verification = verifyCube(cube); return cube
VerifyAndReturn ==
  /\ gen.phase = LastPhase + 1
  /\ gen' = [gen EXCEPT !.phase = LastPhase + 2, !.valid = verifyCube(gen.cube)]
  /\ UNCHANGED <<board, validator, probe, coord, carve, twin, fill, gameStore, daily, query>>

GenNext ==
  \/ GenerateBase
  \/ RelabelDigits
  \/ PermuteRowsInBand
  \/ PermuteColsInBand
  \/ PermuteRowBands
  \/ PermuteColBands
  \/ PermuteZLayersInBand
  \/ PermuteZBands
  \/ VerifyAndReturn

SpecGen == GenInit /\ [][GenNext]_vars

GenReturned == gen.phase = LastPhase + 2 /\ ~gen.threw

(***************************************************************************)
(* Constraint units read off the cube itself: the cells of row, column and *)
(* block u of the slice `plane`.                                           *)
(***************************************************************************)
UnitTypes == {"row", "col", "block"}

UnitCell(type, u, k) ==
  CASE type = "row" -> [row |-> u, col |-> k]
    [] type = "col" -> [row |-> k, col |-> u]
    [] type = "block" -> [row |-> (u \div 3) * 3 + (k \div 3), col |-> (u % 3) * 3 + (k % 3)]

UnitPositions(plane, type, u) ==
  {planeToPosition(plane, UnitCell(type, u, k).row, UnitCell(type, u, k).col) : k \in Idx}

Planes == [axis : Axes, index : Idx]

\* C1: the cube generate() returns has, in each of the 27 slices, every row,
\* every column and every 3x3 block equal to a permutation of 1..9, and
\* verifyCube reports it valid; no run ends in an exception.
C1_GeneratorValidity ==
  gen.phase = LastPhase + 2 =>
    /\ ~gen.threw
    /\ gen.valid
    /\ \A plane \in Planes, type \in UnitTypes, u \in Idx :
         {gen.cube[p.z][p.y][p.x] : p \in UnitPositions(plane, type, u)} = Digits

C1_Witness ==
  /\ GenReturned
  /\ gen.valid
  /\ gen.cube # generateBaseCube
  /\ gen.cube[0] # gen.cube[1]

\* the axis-parallel lines of the cube: the x-, y- and z-lines, each the set
\* of its nine positions
AxisLines ==
  {{Position(k, a, b) : k \in Idx} : a \in Idx, b \in Idx}
    \cup {{Position(a, k, b) : k \in Idx} : a \in Idx, b \in Idx}
    \cup {{Position(a, b, k) : k \in Idx} : a \in Idx, b \in Idx}

\* the 3x3 blocks of the slices of the three slice systems
SliceBlocks == {UnitPositions(plane, "block", u) : plane \in Planes, u \in Idx}

\* C22: the cube generateBaseCube builds holds 3*i + j + 1 at (x,y,z), with
\* i = (x%3 + y%3 + z%3) mod 3 and j = (x/3 + y/3 + z/3 + y%3 + 2*(z%3)) mod 3,
\* and each of its 243 axis-parallel lines and 243 3x3 blocks holds every
\* digit 1..9 exactly once.
C22_BaseCubeValid ==
  gen.phase = 1 =>
    /\ \A p \in Positions :
         gen.cube[p.z][p.y][p.x]
           = 3 * (((p.x % 3) + (p.y % 3) + (p.z % 3)) % 3)
               + (((p.x \div 3) + (p.y \div 3) + (p.z \div 3) + (p.y % 3) + 2 * (p.z % 3)) % 3)
               + 1
    /\ Cardinality(AxisLines) = 243
    /\ Cardinality(SliceBlocks) = 243
    /\ \A unit \in AxisLines \cup SliceBlocks :
         /\ Cardinality(unit) = 9
         /\ {gen.cube[p.z][p.y][p.x] : p \in unit} = Digits

\* the base cube has just been built, no shuffle applied yet
C22_Witness ==
  /\ gen.phase = 1
  /\ gen.cube = generateBaseCube
  /\ gen.cube[0][0][0] = 1
  /\ gen.cube[2][1][0] = 3
  /\ gen.cube[8][8][8] = 1

(***************************************************************************)
(* The constraint index kept in step with a cube: a validator initialised  *)
(* from a cube, then cell value changes, each mirrored by one updateCell.  *)
(***************************************************************************)
\* the cells the changes reach: the first MaxIndexCell + 1 of this list
IndexCellList ==
  << [x |-> 0, y |-> 0, z |-> 0], [x |-> 1, y |-> 0, z |-> 0],
     [x |-> 0, y |-> 1, z |-> 0], [x |-> 4, y |-> 4, z |-> 4],
     [x |-> 0, y |-> 0, z |-> 5], [x |-> 8, y |-> 8, z |-> 8] >>

IndexCells ==
  {IndexCellList[k] : k \in 1 .. (IF MaxIndexCell + 1 < Len(IndexCellList)
                                  THEN MaxIndexCell + 1 ELSE Len(IndexCellList))}

IndexValues == 0 .. (IF MaxIndexDigit < N THEN MaxIndexDigit ELSE N)

SetValue(c, pos, value) == [c EXCEPT ![pos.z][pos.y][pos.x].value = value]

\* the cubes a validator is initialised from
IndexStartCubes ==
  { createEmptyCube,
    SetValue(SetValue(createEmptyCube, [x |-> 2, y |-> 0, z |-> 0], 1),
             [x |-> 5, y |-> 5, z |-> 5], 2) }

IndexInit ==
  /\ gen = GenIdle
  /\ board \in IndexStartCubes
  /\ validator = initFromCube(board)
  /\ probe = ProbeIdle
  /\ twin = TwinIdle
  /\ fill = FillIdle
  /\ gameStore = StoreNull
  /\ daily = <<>>
  /\ query = QueryIdle
  /\ coord = CoordIdle
  /\ carve = CarveIdle

\* what the calls made on one cell have been, after updateCell(pos, old, new)
ProbeAfter(pos, oldValue, newValue) ==
  IF oldValue = 0
  THEN [stage |-> "added", pos |-> pos, value |-> newValue, before |-> validator]
  ELSE IF probe.stage = "added" /\ probe.pos = pos /\ probe.value = oldValue /\ newValue = 0
  THEN [probe EXCEPT !.stage = "removed"]
  ELSE ProbeIdle

\* cube[z][y][x].value = newValue; validator.updateCell(x, y, z, oldValue, newValue)
ChangeCell ==
  \E pos \in IndexCells, newValue \in IndexValues :
    \E oldValue \in {board[pos.z][pos.y][pos.x].value} :
      /\ oldValue # newValue
      /\ board' = SetValue(board, pos, newValue)
      /\ validator' = updateCell(validator, pos.x, pos.y, pos.z, oldValue, newValue)
      /\ probe' = ProbeAfter(pos, oldValue, newValue)
      /\ UNCHANGED <<gen, coord, carve, twin, fill, gameStore, daily, query>>

IndexNext == ChangeCell

SpecIndex == IndexInit /\ [][IndexNext]_vars

\* the nine constraint units holding a position: <<plane, type, unit number>>
UnitsOf(pos) ==
  UNION { { <<[axis |-> axis, index |-> positionToPlane(pos, axis).index],
              "row", positionToPlane(pos, axis).row>>,
            <<[axis |-> axis, index |-> positionToPlane(pos, axis).index],
              "col", positionToPlane(pos, axis).col>>,
            <<[axis |-> axis, index |-> positionToPlane(pos, axis).index],
              "block", getBlockIndex(positionToPlane(pos, axis).row,
                                     positionToPlane(pos, axis).col)>> } :
          axis \in Axes }

\* cell k of row, column or block u of a plane
UnitPosition(plane, type, u, k) ==
  planeToPosition(plane, UnitCell(type, u, k).row, UnitCell(type, u, k).col)

ValueAt(c, pos) == c[pos.z][pos.y][pos.x].value

\* C2: after initFromCube and after every mirrored change of a cell value,
\* isValidPlacement(c, v) is false exactly when a rescan of the cube finds v
\* in one of the nine units of c, for every coordinate c and digit v.
C2_IndexMatchesRescan ==
  \A c \in Positions :
    LET seen == { ValueAt(board, UnitPosition(unit[1], unit[2], unit[3], k)) :
                    unit \in UnitsOf(c), k \in Idx }
    IN \A v \in Digits :
         isValidPlacement(validator, c.x, c.y, c.z, v) = (v \notin seen)

\* C3: updateCell(c, 0, v) followed by updateCell(c, v, 0) leaves each of
\* the 3 x 243 masks as it was before the first call.
C3_AddRemoveRestores ==
  probe.stage = "removed" => validator = probe.before

\* the bank of an axis
BankOf(axis) == CASE axis = "XY" -> "xy" [] axis = "XZ" -> "xz" [] axis = "YZ" -> "yz"

\* the masks of the row, the column and the block of plane coordinates p in
\* the bank of an axis
PlaneSlotsOf(axis, p) ==
  { <<BankOf(axis), p.index * 27 + p.row>>,
    <<BankOf(axis), p.index * 27 + 9 + p.col>>,
    <<BankOf(axis), p.index * 27 + 18 + getBlockIndex(p.row, p.col)>> }

\* the masks of a coordinate as positionToPlane places them
PlaneSlots(pos) == UNION {PlaneSlotsOf(axis, positionToPlane(pos, axis)) : axis \in Axes}

\* masks w are masks v with bit d made `set` in the masks of pos, every
\* other bit and every other mask as in v
OnlyBitChanged(v, w, pos, d, set) ==
  \A slots \in {PlaneSlots(pos)} :
    /\ Cardinality(slots) = 9
    /\ \A axis \in Axes : Cardinality({s \in slots : s[1] = BankOf(axis)}) = 3
    /\ \A bank \in {"xy", "xz", "yz"}, i \in MaskIndex :
         IF <<bank, i>> \in slots
         THEN \A b \in 0 .. 15 :
                HasBit(w[bank][i], b) = (IF b = d THEN set ELSE HasBit(v[bank][i], b))
         ELSE w[bank][i] = v[bank][i]

\* C23: addValue sets and removeValue clears bit v (1..9) in exactly nine
\* masks, for each axis those at p.index*27 + p.row, p.index*27 + 9 + p.col
\* and p.index*27 + 18 + getBlockIndex(p.row, p.col) of the axis bank, with
\* p = positionToPlane((x,y,z), axis), and leave every other mask and bit as
\* it was; updateCell with oldValue = newValue = 0 changes nothing.
C23_NineMasksOneBit ==
  /\ \A pos \in IndexCells, d \in Digits :
       /\ OnlyBitChanged(validator, addValue(validator, pos.x, pos.y, pos.z, d), pos, d, TRUE)
       /\ OnlyBitChanged(validator, removeValue(validator, pos.x, pos.y, pos.z, d), pos, d, FALSE)
       /\ OnlyBitChanged(validator, updateCell(validator, pos.x, pos.y, pos.z, 0, d), pos, d, TRUE)
       /\ OnlyBitChanged(validator, updateCell(validator, pos.x, pos.y, pos.z, d, 0), pos, d, FALSE)
  /\ \A pos \in IndexCells : updateCell(validator, pos.x, pos.y, pos.z, 0, 0) = validator
  /\ probe.stage = "added" =>
       OnlyBitChanged(probe.before, validator, probe.pos, probe.value, TRUE)
  /\ probe.stage = "removed" =>
       OnlyBitChanged(probe.before, validator, probe.pos, probe.value, FALSE)

\* a digit was added at a cell, on masks that held digits already, one of
\* them in a unit of the cell
C23_Witness ==
  /\ probe.stage = "added"
  /\ probe.value # 0
  /\ probe.before # NewValidator
  /\ validator # probe.before
  /\ \E s \in PlaneSlots(probe.pos) : probe.before[s[1]][s[2]] # 0
  /\ \E s \in PlaneSlots(probe.pos) : validator[s[1]][s[2]] = 2 ^ probe.value

(***************************************************************************)
(* The validator called with a coordinate outside the cube: a validator    *)
(* initialised from a cube, then updateCell and isValidPlacement calls     *)
(* whose x, y or z is not in 0..8.  Neither method has a throw statement   *)
(* or a check of its arguments, so no call raises.                         *)
(***************************************************************************)
\* the coordinates outside the cube: the first MaxStrayCell + 1 of these
StrayCellList ==
  << Position(9, 0, 0), Position(0, 0 - 1, 0), Position(4, 4, 9), Position(9, 9, 9),
     Position(0 - 1, 4, 4) >>

StrayCells ==
  {StrayCellList[k] : k \in 1 .. (IF MaxStrayCell + 1 < Len(StrayCellList)
                                  THEN MaxStrayCell + 1 ELSE Len(StrayCellList))}

StrayValues == 0 .. (IF MaxStrayDigit < N THEN MaxStrayDigit ELSE N)

StrayInit ==
  /\ gen = GenIdle
  /\ board \in IndexStartCubes
  /\ validator = initFromCube(board)
  /\ probe = ProbeIdle
  /\ twin = TwinIdle
  /\ fill = FillIdle
  /\ gameStore = StoreNull
  /\ daily = <<>>
  /\ query = QueryIdle
  /\ coord = CoordIdle
  /\ carve = CarveIdle

\* the masks inside the arrays that isValidPlacement reads before it
\* returns: those of a bank are read when no bank before it held the bit
isValidPlacementReads(v, x, y, z, value) ==
  IF value = 0 THEN {}
  ELSE UNION { {slots[k] : k \in {j \in 1 .. 9 :
                   /\ slots[j][2] \in MaskIndex
                   /\ \A i \in 1 .. 3 * ((j - 1) \div 3) :
                        ~HasBit(MaskRead(v, slots[i]), value)}} :
               slots \in {MaskSlots(x, y, z)} }

\* validator.updateCell(x, y, z, oldValue, newValue), (x, y, z) outside the cube
UpdateCellOutside ==
  /\ \E pos \in StrayCells, oldValue \in StrayValues, newValue \in StrayValues :
       /\ validator' = updateCell(validator, pos.x, pos.y, pos.z, oldValue, newValue)
       /\ query' = [op |-> "updateCell", pos |-> pos, oldValue |-> oldValue,
                    newValue |-> newValue, raised |-> FALSE, masksBefore |-> validator]
  /\ UNCHANGED <<gen, board, probe, coord, carve, twin, fill, gameStore, daily>>

\* validator.isValidPlacement(x, y, z, value), (x, y, z) outside the cube
IsValidPlacementOutside ==
  /\ \E pos \in StrayCells, value \in StrayValues :
       query' = [op |-> "isValidPlacement", pos |-> pos, value |-> value,
                 result |-> isValidPlacement(validator, pos.x, pos.y, pos.z, value),
                 reads |-> isValidPlacementReads(validator, pos.x, pos.y, pos.z, value),
                 raised |-> FALSE, masksBefore |-> validator]
  /\ UNCHANGED <<gen, board, validator, probe, coord, carve, twin, fill, gameStore, daily>>

StrayNext ==
  \/ UpdateCellOutside
  \/ IsValidPlacementOutside

SpecStray == StrayInit /\ [][StrayNext]_vars

\* C24: updateCell or isValidPlacement called with a component of the
\* coordinate outside 0..8 raises an error, and neither reads nor writes
\* the mask of a unit that does not hold the addressed cell; no unit of the
\* cube holds a cell outside it, so no mask is read and none is written.
C24_OutsideFailsFast ==
  query.op \in {"updateCell", "isValidPlacement"} =>
    /\ query.raised
    /\ validator = query.masksBefore
    /\ query.op = "isValidPlacement" => query.reads = {}

(***************************************************************************)
(* The validator updated without regard to the cube: a validator           *)
(* initialised from a cube, then updateCell calls inside the cube whose    *)
(* oldValue and newValue are whatever the caller passes.                   *)
(***************************************************************************)
LooseInit ==
  /\ gen = GenIdle
  /\ board \in IndexStartCubes
  /\ validator = initFromCube(board)
  /\ probe = ProbeIdle
  /\ twin = TwinIdle
  /\ fill = FillIdle
  /\ gameStore = StoreNull
  /\ daily = <<>>
  /\ query = QueryIdle
  /\ coord = CoordIdle
  /\ carve = CarveIdle

\* validator.updateCell(x, y, z, oldValue, newValue)
UpdateCell ==
  /\ \E pos \in {IndexCellList[k] : k \in 1 .. MaxLooseCell + 1},
        oldValue \in 0 .. MaxLooseDigit, newValue \in 0 .. MaxLooseDigit :
       /\ validator' = updateCell(validator, pos.x, pos.y, pos.z, oldValue, newValue)
       /\ query' = [op |-> "updateCell", pos |-> pos, oldValue |-> oldValue,
                    newValue |-> newValue]
  /\ UNCHANGED <<gen, board, probe, coord, carve, twin, fill, gameStore, daily>>

LooseNext == UpdateCell

SpecLoose == LooseInit /\ [][LooseNext]_vars

\* C28: after initFromCube and any updateCell calls inside the cube, for all
\* a, b in 0..8 the masks of one physical line are equal: xyMasks[row b of
\* slice z=a] = xzMasks[row a of slice y=b], xyMasks[col b of slice z=a] =
\* yzMasks[row a of slice x=b], xzMasks[col b of slice y=a] = yzMasks[col a
\* of slice x=b].
C28_SharedLinesAgree ==
  \A a \in Idx, b \in Idx :
    /\ validator.xy[a * 27 + b] = validator.xz[b * 27 + a]
    /\ validator.xy[a * 27 + 9 + b] = validator.yz[b * 27 + a]
    /\ validator.xz[a * 27 + 9 + b] = validator.yz[b * 27 + 9 + a]

\* the last call did not match the cube, and the masks of the three lines
\* through its cell hold digits
C28_Witness ==
  /\ query.op = "updateCell"
  /\ query.oldValue # ValueAt(board, query.pos)
  /\ query.newValue # 0
  /\ validator # initFromCube(board)
  /\ validator.xy[query.pos.z * 27 + query.pos.y] # 0
  /\ validator.yz[query.pos.x * 27 + query.pos.z] # 0
  /\ validator.yz[query.pos.x * 27 + 9 + query.pos.y] # 0

(***************************************************************************)
(* The validator's queries.  A validator is constructed, initFromCube is   *)
(* called with a cube, and isValidPlacement, getConflicts, getCandidates   *)
(* and getExclusions are called on it, the last two with that cube.        *)
(***************************************************************************)
\* a cube in which a digit stands more than once in a unit, around (0,0,0)
\* and (4,4,4)
CrowdedCells ==
  << <<2, 0, 0, 1>>, <<7, 0, 0, 1>>, <<0, 0, 2, 1>>, <<1, 1, 0, 1>>, <<0, 1, 1, 1>>,
     <<1, 0, 1, 1>>, <<0, 5, 0, 1>>, <<0, 0, 0, 1>>, <<0, 0, 6, 2>>, <<5, 5, 5, 2>>,
     <<4, 8, 4, 2>>, <<8, 4, 4, 2>>, <<3, 3, 4, 1>>, <<4, 4, 0, 1>>, <<1, 0, 0, 9>> >>

CrowdedCube ==
  ForUp(LAMBDA c, k : SetValue(c, Position(CrowdedCells[k][1], CrowdedCells[k][2],
                                            CrowdedCells[k][3]), CrowdedCells[k][4]),
        createEmptyCube, 1, Len(CrowdedCells))

\* the cubes initFromCube is called with: a crowded cube, a carved puzzle,
\* an empty cube and a solved one
QueryCube(k, solution) ==
  CASE k = 1 -> CrowdedCube
    [] k = 2 -> createPuzzle(solution, "expert", NumberSeed(1), ClockUnread).cube
    [] k = 3 -> createEmptyCube
    [] OTHER -> toCubeData(solution, solution)

\* the first MaxQueryCube + 1 of them
QueryCubes ==
  {QueryCube(k, solution) : k \in 1 .. (IF MaxQueryCube < 3 THEN MaxQueryCube + 1 ELSE 4),
                            solution \in {generateSolution(NumberSeed(1), ClockUnread).cube}}

\* the coordinates asked about: the first MaxQueryCell + 1 of these
QueryCellList ==
  << Position(0, 0, 0), Position(4, 4, 4), Position(1, 0, 0), Position(8, 8, 8),
     Position(0, 7, 2) >>

QueryCells ==
  {QueryCellList[k] : k \in 1 .. (IF MaxQueryCell + 1 < Len(QueryCellList)
                                  THEN MaxQueryCell + 1 ELSE Len(QueryCellList))}

QueryValues == 0 .. (IF MaxQueryDigit < N THEN MaxQueryDigit ELSE N)

\* new CubeValidator(), and the cube at hand
QueryInit ==
  /\ gen = GenIdle
  /\ board \in QueryCubes
  /\ validator = NewValidator
  /\ probe = ProbeIdle
  /\ twin = TwinIdle
  /\ fill = FillIdle
  /\ gameStore = StoreNull
  /\ daily = <<>>
  /\ coord = CoordIdle
  /\ carve = CarveIdle
  /\ query = QueryIdle

\* validator.initFromCube(cube)
InitFromCube ==
  /\ \E c \in QueryCubes :
       /\ board' = c
       /\ validator' = initFromCube(c)
       /\ query' = [op |-> "initFromCube", masksBefore |-> validator]
  /\ UNCHANGED <<gen, probe, coord, carve, twin, fill, gameStore, daily>>

\* validator.isValidPlacement(x, y, z, value)
IsValidPlacement ==
  /\ \E c \in QueryCells, value \in QueryValues :
       query' = [op |-> "isValidPlacement", pos |-> c, value |-> value,
                 result |-> isValidPlacement(validator, c.x, c.y, c.z, value)]
  /\ UNCHANGED <<gen, board, validator, probe, coord, carve, twin, fill, gameStore, daily>>

\* validator.getConflicts(x, y, z, value, cube)
GetConflicts ==
  /\ \E c \in QueryCells, value \in QueryValues :
       query' = [op |-> "getConflicts", pos |-> c, value |-> value,
                 result |-> getConflicts(c.x, c.y, c.z, value, board)]
  /\ UNCHANGED <<gen, board, validator, probe, coord, carve, twin, fill, gameStore, daily>>

\* validator.getCandidates(x, y, z)
GetCandidates ==
  /\ \E c \in QueryCells :
       query' = [op |-> "getCandidates", pos |-> c,
                 result |-> getCandidates(validator, c.x, c.y, c.z)]
  /\ UNCHANGED <<gen, board, validator, probe, coord, carve, twin, fill, gameStore, daily>>

\* validator.getExclusions(x, y, z, cube)
GetExclusions ==
  /\ \E c \in QueryCells :
       query' = [op |-> "getExclusions", pos |-> c,
                 result |-> getExclusions(validator, c.x, c.y, c.z, board)]
  /\ UNCHANGED <<gen, board, validator, probe, coord, carve, twin, fill, gameStore, daily>>

QueryNext ==
  \/ InitFromCube
  \/ IsValidPlacement
  \/ GetConflicts
  \/ GetCandidates
  \/ GetExclusions

SpecQuery == QueryInit /\ [][QueryNext]_vars

\* the mask with exactly the bits of the digits of a set
MaskOf(digits) == ForUp(LAMBDA m, d : IF d \in digits THEN m + 2 ^ d ELSE m, 0, 1, 9)

\* the index in its bank of unit u of a type in slice s
UnitTypeNumber(type) == CASE type = "row" -> 0 [] type = "col" -> 1 [] type = "block" -> 2

\* every mask holds exactly the bits of the digits standing in its unit
MasksExact(v, c) ==
  \A plane \in Planes, type \in UnitTypes, u \in Idx :
    v[BankOf(plane.axis)][plane.index * 27 + UnitTypeNumber(type) * 9 + u]
      = MaskOf({ValueAt(c, p) : p \in UnitPositions(plane, type, u)})

\* C12: directly after initFromCube(cube), whatever the masks held before,
\* bit v (1..9) of bank[s*27 + t*9 + u] is set exactly when a cell of that
\* unit holds v, and bit 0 and the bits above bit 9 are clear.
C12_InitFromCubeExact ==
  query.op = "initFromCube" => MasksExact(validator, board)

\* the masks were those of another cube with digits in it, and the cube
\* given holds a digit twice in one row
C12_Witness ==
  /\ query.op = "initFromCube"
  /\ query.masksBefore # NewValidator
  /\ query.masksBefore # validator
  /\ board = CrowdedCube
  /\ validator # NewValidator

\* a step that is a call of one of the four queries: the call made last is
\* then that query
QueryStep ==
  query'.op \in {"isValidPlacement", "getConflicts", "getCandidates", "getExclusions"}

\* C13: a call of isValidPlacement, getCandidates, getExclusions or
\* getConflicts leaves the 3 x 243 masks and every cell of the cube as they
\* were, and isValidPlacement(c, 0) returns true in every state.
C13_QueriesReadOnly ==
  /\ [][QueryStep => (validator' = validator /\ board' = board)]_vars
  /\ [](\A c \in QueryCells : isValidPlacement(validator, c.x, c.y, c.z, 0))
  /\ [](query.op = "isValidPlacement" /\ query.value = 0 => query.result)

\* clearing was asked about at a cell whose row holds digits, on masks that
\* refuse a digit there
C13_Witness ==
  /\ query.op = "isValidPlacement"
  /\ query.value = 0
  /\ query.result
  /\ board = CrowdedCube
  /\ validator = initFromCube(board)
  /\ ~isValidPlacement(validator, query.pos.x, query.pos.y, query.pos.z, 1)

\* the cells other than c that share a row, a column or a block with c in
\* one of the three slice systems and hold value
SameUnitHolders(cube, c, value) ==
  {p \in Positions : /\ p # c
                     /\ ValueAt(cube, p) = value
                     /\ UnitsOf(p) \cap UnitsOf(c) # {}}

\* C18: for a digit v in 1..9, getConflicts(c, v, cube) holds exactly the
\* coordinates other than c that share a row, column or 3x3 block with c in
\* one of the three slice systems and hold v, each of them once and never c
\* itself; for v = 0 it is empty.
C18_ConflictsExact ==
  query.op = "getConflicts" =>
    /\ query.value = 0 => query.result = <<>>
    /\ query.value # 0 =>
         /\ {query.result[i] : i \in 1 .. Len(query.result)}
              = SameUnitHolders(board, query.pos, query.value)
         /\ \A i, j \in 1 .. Len(query.result) : query.result[i] = query.result[j] => i = j
         /\ \A i \in 1 .. Len(query.result) : query.result[i] # query.pos

\* the digit stands in several units of the coordinate, in one cell through
\* more than one unit, and the coordinate holds the digit itself
C18_Witness ==
  /\ query.op = "getConflicts"
  /\ query.value # 0
  /\ Len(query.result) >= 3
  /\ ValueAt(board, query.pos) = query.value
  /\ \E i \in 1 .. Len(query.result) :
       Cardinality(UnitsOf(query.result[i]) \cap UnitsOf(query.pos)) >= 2

\* the blockers an ExclusionInfo reports for a digit: none when the digit is
\* a candidate
BlockersFor(info, d) == IF d \in DOMAIN info.blockedBy THEN info.blockedBy[d] ELSE <<>>

\* C19: when every mask holds exactly the digits of its unit, getExclusions
\* gives the candidates getCandidates gives; every digit 1..9 is either a
\* candidate or a key of blockedBy, never both; and every blocker reported
\* for a digit holds that digit and lies in the unit of c that its
\* constraint and plane name.
C19_ExclusionsMatchCandidates ==
  (query.op = "getExclusions" /\ MasksExact(validator, board)) =>
    /\ query.result.candidates
         = getCandidates(validator, query.pos.x, query.pos.y, query.pos.z)
    /\ query.result.candidates \cap DOMAIN query.result.blockedBy = {}
    /\ query.result.candidates \cup DOMAIN query.result.blockedBy = 1 .. 9
    /\ \A d \in DOMAIN query.result.blockedBy :
         /\ query.result.blockedBy[d] # <<>>
         /\ \A i \in 1 .. Len(query.result.blockedBy[d]) :
              LET b == query.result.blockedBy[d][i]
              IN /\ ValueAt(board, b.position) = d
                 /\ b.plane.axis = b.constraint[1]
                 /\ \E unit \in UnitsOf(query.pos) :
                      /\ unit[1] = b.plane
                      /\ unit[2] = b.constraint[2]
                      /\ b.position \in UnitPositions(unit[1], unit[2], unit[3])

\* on exact masks, some digits are candidates, others are blocked, one of
\* them by cells of more than one slice system
C19_Witness ==
  /\ query.op = "getExclusions"
  /\ MasksExact(validator, board)
  /\ query.result.candidates # {}
  /\ \E d \in DOMAIN query.result.blockedBy :
       \E i, j \in 1 .. Len(query.result.blockedBy[d]) :
         query.result.blockedBy[d][i].plane.axis # query.result.blockedBy[d][j].plane.axis

\* C20: in getExclusions, a cell that blocks a digit through several of the
\* units of c is reported once for each (axis, unit type) pairing through
\* which it blocks, and never twice for the same pairing.
C20_OncePerPairing ==
  (query.op = "getExclusions" /\ MasksExact(validator, board)) =>
    \A d \in 1 .. 9 :
      /\ \A unit \in UnitsOf(query.pos) :
           \A p \in UnitPositions(unit[1], unit[2], unit[3]) :
             ({q \in UnitPositions(unit[1], unit[2], unit[3]) : ValueAt(board, q) = d} = {p}) =>
               Cardinality({i \in 1 .. Len(BlockersFor(query.result, d)) :
                              /\ BlockersFor(query.result, d)[i].position = p
                              /\ BlockersFor(query.result, d)[i].constraint
                                   = <<unit[1].axis, unit[2]>>}) = 1
      /\ \A i, j \in 1 .. Len(BlockersFor(query.result, d)) :
           (/\ BlockersFor(query.result, d)[i].position = BlockersFor(query.result, d)[j].position
            /\ BlockersFor(query.result, d)[i].constraint
                 = BlockersFor(query.result, d)[j].constraint) => i = j

(***************************************************************************)
(* Plane coordinates: a position is taken to the coordinates of a plane    *)
(* and back.                                                               *)
(***************************************************************************)
CoordInit ==
  /\ gen = GenIdle
  /\ board = createEmptyCube
  /\ validator = NewValidator
  /\ probe = ProbeIdle
  /\ twin = TwinIdle
  /\ fill = FillIdle
  /\ gameStore = StoreNull
  /\ daily = <<>>
  /\ query = QueryIdle
  /\ carve = CarveIdle
  /\ \E pos \in Positions, axis \in Axes :
       coord = [CoordIdle EXCEPT !.pos = pos, !.axis = axis]

\* const p = positionToPlane(pos, axis)
ToPlane ==
  /\ coord.stage = "idle"
  /\ coord' = [coord EXCEPT !.stage = "plane",
                            !.plane = positionToPlane(coord.pos, coord.axis)]
  /\ UNCHANGED <<gen, board, validator, probe, carve, twin, fill, gameStore, daily, query>>

\* planeToPosition({axis, index: p.index}, p.row, p.col)
ToPosition ==
  /\ coord.stage = "plane"
  /\ coord' = [coord EXCEPT !.stage = "back",
                            !.back = planeToPosition([axis |-> coord.axis,
                                                      index |-> coord.plane.index],
                                                     coord.plane.row, coord.plane.col)]
  /\ UNCHANGED <<gen, board, validator, probe, carve, twin, fill, gameStore, daily, query>>

CoordNext == ToPlane \/ ToPosition

SpecCoord == CoordInit /\ [][CoordNext]_vars

\* C8: positionToPlane followed by planeToPosition gives the position back,
\* and the plane coordinates are XY: index = z, row = y, col = x; XZ:
\* index = y, row = z, col = x; YZ: index = x, row = z, col = y.
C8_PlaneRoundTrip ==
  /\ coord.stage = "back" => coord.back = coord.pos
  /\ coord.stage \in {"plane", "back"} =>
       /\ coord.axis = "XY" =>
            coord.plane = [index |-> coord.pos.z, row |-> coord.pos.y, col |-> coord.pos.x]
       /\ coord.axis = "XZ" =>
            coord.plane = [index |-> coord.pos.y, row |-> coord.pos.z, col |-> coord.pos.x]
       /\ coord.axis = "YZ" =>
            coord.plane = [index |-> coord.pos.x, row |-> coord.pos.z, col |-> coord.pos.y]

C8_Witness ==
  /\ coord.stage = "back"
  /\ coord.axis = "YZ"
  /\ coord.pos = [x |-> 2, y |-> 7, z |-> 5]
  /\ coord.back = coord.pos

(***************************************************************************)
(* The carver, one visited position per step.                              *)
(***************************************************************************)
CarveSolutions ==
  {generateSolution(NumberSeed(s), ClockUnread).cube : s \in 1 .. MaxCarveSolution}

CarveSeedArgs == {NoSeed} \cup {NumberSeed(n) : n \in 0 .. MaxCarveSeed}

\* createPuzzle(solution, difficulty, seed) is called
CarveInit ==
  /\ gen = GenIdle
  /\ board = createEmptyCube
  /\ validator = NewValidator
  /\ probe = ProbeIdle
  /\ twin = TwinIdle
  /\ fill = FillIdle
  /\ gameStore = StoreNull
  /\ daily = <<>>
  /\ query = QueryIdle
  /\ coord = CoordIdle
  /\ \E solution \in CarveSolutions, difficulty \in Difficulties,
        seed \in CarveSeedArgs, now \in ClockTimes :
       carve = [CarveIdle EXCEPT !.phase = "called", !.solution = solution,
                                 !.difficulty = difficulty, !.seed = seed, !.now = now]

\* const rng = new SeededRandom(seed ?? Date.now()); the puzzle is a copy of
\* the solution; const shuffledPositions = rng.shuffle(allPositions)
CarveShuffle ==
  /\ carve.phase = "called"
  /\ carve' = [carve EXCEPT
       !.phase = "carving",
       !.shuffledPositions = shuffle(carverRng(carve.seed, carve.now), allPositions).arr,
       !.next = 0,
       !.run = [puzzle |-> carve.solution, removed |-> 0, threw |-> FALSE]]
  /\ UNCHANGED <<gen, board, validator, probe, coord, twin, fill, gameStore, daily, query>>

\* one pass of for (const pos of shuffledPositions) that does not break
CarveVisit ==
  /\ carve.phase = "carving"
  /\ carve.next \in DOMAIN carve.shuffledPositions
  /\ carve.run.removed < cellsToRemove(carve.difficulty)
  /\ ~carve.run.threw
  /\ carve' = [carve EXCEPT
       !.run = carveVisit(carve.run, carve.shuffledPositions[carve.next], carve.difficulty),
       !.next = @ + 1]
  /\ UNCHANGED <<gen, board, validator, probe, coord, twin, fill, gameStore, daily, query>>

\* the loop ends or breaks; the CubeData is built and returned
CarveReturn ==
  /\ carve.phase = "carving"
  /\ \/ carve.next \notin DOMAIN carve.shuffledPositions
     \/ carve.run.removed >= cellsToRemove(carve.difficulty)
     \/ carve.run.threw
  /\ carve' = [carve EXCEPT !.phase = "returned",
                            !.cubeData = toCubeData(carve.run.puzzle, carve.solution)]
  /\ UNCHANGED <<gen, board, validator, probe, coord, twin, fill, gameStore, daily, query>>

CarveNext == CarveShuffle \/ CarveVisit \/ CarveReturn

SpecCarve == CarveInit /\ [][CarveNext]_vars

\* the cells of a slice
SliceCells(plane) == {planeToPosition(plane, row, col) : row \in Idx, col \in Idx}

\* how many cells of a slice of a cube of values are not zero
SliceGivens(values, plane) ==
  Cardinality({p \in SliceCells(plane) : values[p.z][p.y][p.x] # 0})

\* C4: during carving, after every removal, and in the puzzle returned,
\* each of the 27 slices holds at least minPerPlane non-zero cells.
C4_CarverFloor ==
  /\ carve.phase \in {"carving", "returned"} =>
       \A plane \in Planes :
         SliceGivens(carve.run.puzzle, plane) >=
           DIFFICULTY_CONFIGS[carve.difficulty].minPerPlane
  /\ carve.phase = "returned" =>
       \A plane \in Planes :
         Cardinality({p \in SliceCells(plane) : carve.cubeData[p.z][p.y][p.x].value # 0})
           >= DIFFICULTY_CONFIGS[carve.difficulty].minPerPlane

\* a slice stands exactly at the floor and a removal was refused for it
C4_Witness ==
  /\ carve.phase = "returned"
  /\ carve.run.removed > 0
  /\ \E plane \in Planes :
       SliceGivens(carve.run.puzzle, plane) = DIFFICULTY_CONFIGS[carve.difficulty].minPerPlane

\* C5: in the puzzle returned by createPuzzle every cell's solution is the
\* digit of the input solution there, a given cell's value is its solution,
\* any other cell's value is 0, isError is false and pencilMarks is empty.
C5_CarverCells ==
  carve.phase = "returned" =>
    \A p \in Positions :
      LET cell == carve.cubeData[p.z][p.y][p.x]
      IN /\ cell.solution = carve.solution[p.z][p.y][p.x]
         /\ cell.isGiven => cell.value = cell.solution
         /\ ~cell.isGiven => cell.value = 0
         /\ cell.isError = FALSE
         /\ cell.pencilMarks = {}

C5_Witness ==
  /\ carve.phase = "returned"
  /\ \E p, q \in Positions :
       /\ carve.cubeData[p.z][p.y][p.x].isGiven
       /\ carve.cubeData[p.z][p.y][p.x].value = carve.solution[p.z][p.y][p.x]
       /\ ~carve.cubeData[q.z][q.y][q.x].isGiven
       /\ carve.cubeData[q.z][q.y][q.x].solution = carve.solution[q.z][q.y][q.x]
       /\ carve.cubeData[q.z][q.y][q.x].solution # 0

\* the given cells of the CubeData returned
GivenCells == {p \in Positions : carve.cubeData[p.z][p.y][p.x].isGiven}

\* 729 - config.givens
RemovalTarget == 729 - DIFFICULTY_CONFIGS[carve.difficulty].givens

JustRemoved ==
  /\ carve.phase = "carving"
  /\ carve.next > 0
  /\ carve.shuffledPositions[carve.next - 1] # Undefined
  /\ carve.run.puzzle[ScanPosition(carve.shuffledPositions[carve.next - 1]).z]
                      [ScanPosition(carve.shuffledPositions[carve.next - 1]).y]
                      [ScanPosition(carve.shuffledPositions[carve.next - 1]).x] = 0

\* the three slices through the position visited last
SlicesOfLast ==
  {[axis |-> axis,
    index |-> positionToPlane(ScanPosition(carve.shuffledPositions[carve.next - 1]), axis).index] :
     axis \in Axes}

\* C15 as stated: directly after every removal, each of the three slices
\* through the removed coordinate has a given-count strictly greater than
\* minPerPlane.
C15_StrictlyAboveAfterRemoval ==
  JustRemoved =>
    \A plane \in SlicesOfLast :
      SliceGivens(carve.run.puzzle, plane) > DIFFICULTY_CONFIGS[carve.difficulty].minPerPlane

\* C15 as amended: a cell is removed only if the given-count of each of its
\* three slices is strictly above minPerPlane before the removal; directly
\* after every removal each of the three slices has a given-count of at
\* least minPerPlane.
C15_AboveBeforeRemoval ==
  JustRemoved =>
    \A plane \in SlicesOfLast :
      /\ SliceGivens(carve.run.puzzle, plane) + 1 > DIFFICULTY_CONFIGS[carve.difficulty].minPerPlane
      /\ SliceGivens(carve.run.puzzle, plane) >= DIFFICULTY_CONFIGS[carve.difficulty].minPerPlane

\* a removal has just brought one of its slices down to the minimum itself
C15_Witness ==
  /\ JustRemoved
  /\ \E plane \in SlicesOfLast :
       SliceGivens(carve.run.puzzle, plane) = DIFFICULTY_CONFIGS[carve.difficulty].minPerPlane

\* the coordinates the walk has examined and left in place
PassedOver ==
  {p \in {ScanPosition(carve.shuffledPositions[i]) : i \in 0 .. carve.next - 1} :
     carve.run.puzzle[p.z][p.y][p.x] # 0}

\* p lies in a slice whose given-count, in `counts`, is exactly the minimum
InSliceAtFloor(counts, p) ==
  \E axis \in Axes :
    counts[[axis |-> axis, index |-> positionToPlane(p, axis).index]]
      = DIFFICULTY_CONFIGS[carve.difficulty].minPerPlane

DailySeedArg == getDailySeed([year |-> 2026, month |-> 10, date |-> 1])

TwinInit ==
  /\ gen = GenIdle
  /\ board = createEmptyCube
  /\ validator = NewValidator
  /\ probe = ProbeIdle
  /\ coord = CoordIdle
  /\ carve = CarveIdle
  /\ fill = FillIdle
  /\ gameStore = StoreNull
  /\ daily = <<>>
  /\ query = QueryIdle
  /\ \/ \E seed \in GenSeedArgs \cup {DailySeedArg} :
          twin = [TwinIdle EXCEPT !.call = "generateSolution", !.seed = seed]
     \/ \E solution \in CarveSolutions, difficulty \in Difficulties, seed \in CarveSeedArgs :
          twin = [TwinIdle EXCEPT !.call = "createPuzzle", !.solution = solution,
                                  !.difficulty = difficulty, !.seed = seed]

\* generateSolution(seed) at clock reading now: [now, cube, threw]
GenerateCall(now) ==
  Only({ [now |-> now, cube |-> run.cube, threw |-> run.threw] :
         run \in {generateSolution(twin.seed, now)} })

\* createPuzzle(solution, difficulty, seed) at clock reading now
CarveCall(now) ==
  Only({ [now |-> now, cube |-> run.cube, threw |-> run.threw] :
         run \in {createPuzzle(twin.solution, twin.difficulty, twin.seed, now)} })

GenerateFirst ==
  /\ twin.call = "generateSolution"
  /\ twin.first = Null
  /\ \E now \in ClockTimes : twin' = [twin EXCEPT !.first = <<GenerateCall(now)>>]
  /\ UNCHANGED <<gen, board, validator, probe, coord, carve, fill, gameStore, daily, query>>

GenerateSecond ==
  /\ twin.call = "generateSolution"
  /\ twin.first # Null
  /\ twin.second = Null
  /\ \E now \in ClockTimes : twin' = [twin EXCEPT !.second = <<GenerateCall(now)>>]
  /\ UNCHANGED <<gen, board, validator, probe, coord, carve, fill, gameStore, daily, query>>

CarveFirst ==
  /\ twin.call = "createPuzzle"
  /\ twin.first = Null
  /\ \E now \in ClockTimes : twin' = [twin EXCEPT !.first = <<CarveCall(now)>>]
  /\ UNCHANGED <<gen, board, validator, probe, coord, carve, fill, gameStore, daily, query>>

CarveSecond ==
  /\ twin.call = "createPuzzle"
  /\ twin.first # Null
  /\ twin.second = Null
  /\ \E now \in ClockTimes : twin' = [twin EXCEPT !.second = <<CarveCall(now)>>]
  /\ UNCHANGED <<gen, board, validator, probe, coord, carve, fill, gameStore, daily, query>>

TwinNext == GenerateFirst \/ GenerateSecond \/ CarveFirst \/ CarveSecond

SpecTwin == TwinInit /\ [][TwinNext]_vars

\* C6: two calls of generateSolution with the same seed return the same
\* 729 values, and two calls of createPuzzle with the same solution,
\* difficulty and numeric seed return cubes with the same value, solution
\* and isGiven at every coordinate, whatever the clock reads at each call.
C6_SameArgumentsSameResult ==
  (twin.first # Null /\ twin.second # Null) =>
    /\ (twin.call = "generateSolution" /\ twin.seed.type # "undefined") =>
         /\ twin.first[1].threw = twin.second[1].threw
         /\ \A p \in Positions :
              twin.first[1].cube[p.z][p.y][p.x] = twin.second[1].cube[p.z][p.y][p.x]
    /\ (twin.call = "createPuzzle" /\ twin.seed.type = "number") =>
         /\ twin.first[1].threw = twin.second[1].threw
         /\ \A p \in Positions :
              /\ twin.first[1].cube[p.z][p.y][p.x].value
                   = twin.second[1].cube[p.z][p.y][p.x].value
              /\ twin.first[1].cube[p.z][p.y][p.x].solution
                   = twin.second[1].cube[p.z][p.y][p.x].solution
              /\ twin.first[1].cube[p.z][p.y][p.x].isGiven
                   = twin.second[1].cube[p.z][p.y][p.x].isGiven

\* a numeric seed, two clock readings, and a puzzle with carved cells
C6_Witness ==
  /\ twin.call = "createPuzzle"
  /\ twin.seed.type = "number"
  /\ twin.first # Null
  /\ twin.second # Null
  /\ twin.first[1].now # twin.second[1].now
  /\ \E p \in Positions : ~twin.second[1].cube[p.z][p.y][p.x].isGiven
  /\ twin.first[1].cube = twin.second[1].cube

(***************************************************************************)
(* Completion: a carved puzzle is filled in and isPuzzleComplete is asked. *)
(***************************************************************************)
\* the puzzles createPuzzle returns over the model's arguments
FillPuzzles ==
  {createPuzzle(solution, difficulty, seed, ClockUnread).cube :
     solution \in CarveSolutions, difficulty \in Difficulties,
     seed \in CarveSeedArgs \ {NoSeed}}

\* every cell's value set to its solution, but for the cells in `but`
SolvedBut(c, but) ==
  [z \in Idx |-> [y \in Idx |-> [x \in Idx |->
     IF [x |-> x, y |-> y, z |-> z] \in but THEN c[z][y][x]
     ELSE [c[z][y][x] EXCEPT !.value = c[z][y][x].solution]]]]

\* isPuzzleComplete(cube) is called and its result kept
Asked(stage, c) == [stage |-> stage, cube |-> c, complete |-> isPuzzleComplete(c)]

FillInit ==
  /\ gen = GenIdle
  /\ board = createEmptyCube
  /\ validator = NewValidator
  /\ probe = ProbeIdle
  /\ coord = CoordIdle
  /\ carve = CarveIdle
  /\ twin = TwinIdle
  /\ gameStore = StoreNull
  /\ daily = <<>>
  /\ query = QueryIdle
  /\ \E puzzle \in FillPuzzles : fill = Asked("puzzle", puzzle)

\* every cell's value is set to its solution
SolveAll ==
  /\ fill.stage = "puzzle"
  /\ fill' = Asked("solved", SolvedBut(fill.cube, {}))
  /\ UNCHANGED <<gen, board, validator, probe, coord, carve, twin, gameStore, daily, query>>

\* every cell's value is set to its solution but for one carved cell
LeaveOne ==
  /\ fill.stage = "puzzle"
  /\ \E p \in Positions :
       /\ ~fill.cube[p.z][p.y][p.x].isGiven
       /\ fill' = Asked("left", SolvedBut(fill.cube, {p}))
  /\ UNCHANGED <<gen, board, validator, probe, coord, carve, twin, gameStore, daily, query>>

\* a digit other than its solution is written into a cell of the solved cube
EnterWrong ==
  /\ fill.stage = "solved"
  /\ \E p \in IndexCells, value \in Digits :
       /\ value # fill.cube[p.z][p.y][p.x].solution
       /\ fill' = Asked("wrong", SetValue(fill.cube, p, value))
  /\ UNCHANGED <<gen, board, validator, probe, coord, carve, twin, gameStore, daily, query>>

FillNext == SolveAll \/ LeaveOne \/ EnterWrong

SpecFill == FillInit /\ [][FillNext]_vars

\* C9: isPuzzleComplete is true exactly when every cell's value is its
\* solution; it is true of a carved puzzle whose every cell was set to its
\* solution, and false when one carved cell was left at 0.
C9_CompleteIffSolved ==
  /\ fill.stage # "idle" =>
       (fill.complete <=>
          \A p \in Positions : fill.cube[p.z][p.y][p.x].value = fill.cube[p.z][p.y][p.x].solution)
  /\ fill.stage = "solved" => fill.complete
  /\ fill.stage = "left" => ~fill.complete

\* all but one carved cell hold their solution, and the answer is false
C9_Witness ==
  /\ fill.stage = "left"
  /\ ~fill.complete
  /\ Cardinality({p \in Positions :
                    fill.cube[p.z][p.y][p.x].value # fill.cube[p.z][p.y][p.x].solution}) = 1
  /\ \E p \in Positions : ~fill.cube[p.z][p.y][p.x].isGiven /\ fill.cube[p.z][p.y][p.x].value # 0

(***************************************************************************)
(* The game store in play.                                                 *)
(***************************************************************************)
StoreDifficulties == {"medium", "expert"}

\* the numeric seeds newGame is given
StoreSeedArgs == {NumberSeed(n) : n \in 1 .. MaxStoreSeed}

\* what the try block of newGame makes, over the model's arguments: the seed
\* omitted, at each clock reading, and each numeric seed
NewGameTries ==
  {newGameTry(diff, NoSeed, now, now) : diff \in StoreDifficulties, now \in ClockTimes}
    \cup {newGameTry(diff, seed, ClockUnread, ClockUnread) :
            diff \in StoreDifficulties, seed \in StoreSeedArgs}

\* the cells the player works on
StoreCells == {IndexCellList[i] : i \in 1 .. MaxStoreCell + 1}

StoreInit ==
  /\ gen = GenIdle
  /\ board = createEmptyCube
  /\ validator = NewValidator
  /\ probe = ProbeIdle
  /\ coord = CoordIdle
  /\ carve = CarveIdle
  /\ twin = TwinIdle
  /\ fill = FillIdle
  /\ gameStore = StoreNull
  /\ daily = <<>>
  /\ query = QueryIdle

\* the history may take another entry, the error tally another error
RoomToPlay ==
  gameStore.gameState # Null =>
    /\ Len(gameStore.gameState[1].history) + Len(gameStore.gameState[1].redoStack) < MaxHistory
    /\ gameStore.gameState[1].stats.errors < MaxErrorTally

NewGame ==
  /\ \E try \in NewGameTries : gameStore' = newGame(gameStore, try)
  /\ UNCHANGED <<gen, board, validator, probe, coord, carve, twin, fill, daily, query>>

SelectCell ==
  /\ \E pos \in {Null} \cup {<<c>> : c \in StoreCells} : gameStore' = selectCell(gameStore, pos)
  /\ UNCHANGED <<gen, board, validator, probe, coord, carve, twin, fill, daily, query>>

SetCellValue ==
  /\ RoomToPlay
  /\ \E pos \in StoreCells, value \in 0 .. N : gameStore' = setCellValue(gameStore, pos, value)
  /\ UNCHANGED <<gen, board, validator, probe, coord, carve, twin, fill, daily, query>>

TogglePencilMark ==
  /\ RoomToPlay
  /\ \E pos \in StoreCells, value \in 0 .. MaxPencilDigit :
       gameStore' = togglePencilMark(gameStore, pos, value)
  /\ UNCHANGED <<gen, board, validator, probe, coord, carve, twin, fill, daily, query>>

UseHint ==
  /\ RoomToPlay
  /\ gameStore.gameState # Null => gameStore.gameState[1].stats.hints < MaxHintTally
  /\ gameStore' = useHint(gameStore)
  /\ UNCHANGED <<gen, board, validator, probe, coord, carve, twin, fill, daily, query>>

Undo ==
  /\ gameStore' = undo(gameStore)
  /\ UNCHANGED <<gen, board, validator, probe, coord, carve, twin, fill, daily, query>>

Redo ==
  /\ gameStore' = redo(gameStore)
  /\ UNCHANGED <<gen, board, validator, probe, coord, carve, twin, fill, daily, query>>

ResetGame ==
  /\ gameStore' = resetGame(gameStore)
  /\ UNCHANGED <<gen, board, validator, probe, coord, carve, twin, fill, daily, query>>

StoreNext ==
  \/ NewGame
  \/ SelectCell
  \/ SetCellValue
  \/ TogglePencilMark
  \/ UseHint
  \/ Undo
  \/ Redo
  \/ ResetGame

SpecStore == StoreInit /\ [][StoreNext]_vars

\* C10: whenever the store holds a game, the validator's three mask arrays
\* are the masks initFromCube derives from the game's cube as it stands.
C10_ValidatorTracksCube ==
  gameStore.gameState # Null =>
    /\ gameStore.validator # Null
    /\ gameStore.validator[1] = initFromCube(gameStore.gameState[1].cube)

\* a value was placed and cleared, and undo put it back: the entry undone
\* waits on the redo stack and the cell holds its solution again
C10_Witness ==
  /\ gameStore.gameState # Null
  /\ gameStore.validator # Null
  /\ Len(gameStore.gameState[1].history) = 1
  /\ Len(gameStore.gameState[1].redoStack) = 1
  /\ gameStore.gameState[1].history[1].type = "setValue"
  /\ gameStore.gameState[1].redoStack[1].type = "clearValue"
  /\ \E p \in StoreCells :
       /\ gameStore.gameState[1].redoStack[1].position = p
       /\ ~gameStore.gameState[1].cube[p.z][p.y][p.x].isGiven
       /\ gameStore.gameState[1].cube[p.z][p.y][p.x].value
            = gameStore.gameState[1].cube[p.z][p.y][p.x].solution
       /\ gameStore.validator[1] # initFromCube(SetValue(gameStore.gameState[1].cube, p, 0))

\* the cell of the game's cube at a position
GameCell(pos) == gameStore.gameState[1].cube[pos.z][pos.y][pos.x]

\* a step of play: any of the player's actions on the game in progress
PlayStep == SetCellValue \/ TogglePencilMark \/ UseHint \/ Undo \/ Redo

\* C11: in a game, every given cell holds its solution; setCellValue and
\* togglePencilMark aimed at a given cell leave the whole store (cube, masks,
\* history, redo stack, stats) as it was; and no step of setCellValue,
\* togglePencilMark, useHint, undo or redo changes any cell's isGiven or
\* solution.
C11_GivensUntouched ==
  /\ [](gameStore.gameState # Null =>
          /\ \A p \in Positions : GameCell(p).isGiven => GameCell(p).value = GameCell(p).solution
          /\ \A pos \in StoreCells :
               GameCell(pos).isGiven =>
                 /\ \A value \in 0 .. N : setCellValue(gameStore, pos, value) = gameStore
                 /\ \A value \in 0 .. N : togglePencilMark(gameStore, pos, value) = gameStore)
  /\ [][(gameStore.gameState # Null /\ PlayStep) =>
          /\ gameStore'.gameState # Null
          /\ \A p \in Positions :
               /\ gameStore'.gameState[1].cube[p.z][p.y][p.x].isGiven = GameCell(p).isGiven
               /\ gameStore'.gameState[1].cube[p.z][p.y][p.x].solution = GameCell(p).solution]_vars

\* a game in which the player has worked on a carved cell while another of
\* the cells in reach is a given, still holding its solution
C11_Witness ==
  /\ gameStore.gameState # Null
  /\ Len(gameStore.gameState[1].history) > 0
  /\ \E p, q \in StoreCells :
       /\ GameCell(p).isGiven
       /\ GameCell(p).value = GameCell(p).solution
       /\ ~GameCell(q).isGiven
       /\ GameCell(q).value # 0

\* a step changed the value of a cell, or the pencil marks of a cell
ValueChanged ==
  \E p \in Positions : gameStore'.gameState[1].cube[p.z][p.y][p.x].value # GameCell(p).value

MarksChanged ==
  \E p \in Positions :
    gameStore'.gameState[1].cube[p.z][p.y][p.x].pencilMarks # GameCell(p).pencilMarks

\* C16: directly after every setCellValue call that changes a cell's value
\* (useHint's call included) and after every togglePencilMark call that
\* toggles a note, redoStack is empty and history is exactly one entry
\* longer than before the call.
C16_ForwardClearsRedo ==
  [][(/\ gameStore.gameState # Null
      /\ gameStore'.gameState # Null
      /\ \/ (SetCellValue \/ UseHint) /\ ValueChanged
         \/ TogglePencilMark /\ MarksChanged) =>
       /\ gameStore'.gameState[1].redoStack = <<>>
       /\ Len(gameStore'.gameState[1].history) = Len(gameStore.gameState[1].history) + 1]_vars

\* a hint filled a cell, undo emptied it again, and a pencil mark was then
\* toggled: the one entry of history is the toggle, the redo stack is empty
C16_Witness ==
  /\ gameStore.gameState # Null
  /\ gameStore.gameState[1].stats.hints = 1
  /\ \A p \in StoreCells : GameCell(p).isGiven \/ GameCell(p).value = 0
  /\ Len(gameStore.gameState[1].history) = 1
  /\ gameStore.gameState[1].history[1].type = "togglePencilMark"
  /\ gameStore.gameState[1].redoStack = <<>>

\* the store with one more error tallied and nothing else changed
ErrorTallied == [gameStore EXCEPT !.gameState[1].stats.errors = @ + 1]

\* C17: setCellValue on a cell that is not given, with a digit that is not
\* 0, not the cell's solution and not its value, leaves every cell value,
\* the masks, history, redoStack and stats.cellsFilled as they were and adds
\* exactly 1 to stats.errors; and in every state of the store every cell's
\* value is 0 or its solution and no cell has isError = true.
C17_WrongRejectedAndTallied ==
  gameStore.gameState # Null =>
    /\ \A pos \in StoreCells, value \in 1 .. N :
         (/\ ~GameCell(pos).isGiven
          /\ value # GameCell(pos).solution
          /\ value # GameCell(pos).value) =>
           setCellValue(gameStore, pos, value) = ErrorTallied
    /\ \A p \in Positions :
         /\ GameCell(p).value \in {0, GameCell(p).solution}
         /\ ~GameCell(p).isError

\* a wrong digit was entered and tallied after a cell had been filled, and
\* another cell in reach is still empty
C17_Witness ==
  /\ gameStore.gameState # Null
  /\ gameStore.gameState[1].stats.errors > 0
  /\ Len(gameStore.gameState[1].history) > 0
  /\ \E p \in StoreCells :
       /\ ~GameCell(p).isGiven
       /\ GameCell(p).value = 0
       /\ setCellValue(gameStore, p, 1 + (GameCell(p).solution % N)) = ErrorTallied

\* the values and pencil marks of every cell of a store's cube
ValuesAndMarks(store) ==
  [p \in Positions |-> [value |-> store.gameState[1].cube[p.z][p.y][p.x].value,
                        pencilMarks |-> store.gameState[1].cube[p.z][p.y][p.x].pencilMarks]]

\* undo gives back what the action before it changed: values, pencil marks,
\* masks and cellsFilled
Inverted(before, after) ==
  \A undone \in {undo(after)} :
    /\ ValuesAndMarks(undone) = ValuesAndMarks(before)
    /\ undone.validator = before.validator
    /\ undone.gameState[1].stats.cellsFilled = before.gameState[1].stats.cellsFilled

\* every setCellValue that places or clears a value and every
\* togglePencilMark that toggles a note is inverted by undo
ActionsInverted ==
  /\ \A pos \in StoreCells, value \in 0 .. N :
       \A after \in {setCellValue(gameStore, pos, value)} :
         ValuesAndMarks(after) # ValuesAndMarks(gameStore) => Inverted(gameStore, after)
  /\ \A pos \in StoreCells, value \in 0 .. MaxPencilDigit :
       \A after \in {togglePencilMark(gameStore, pos, value)} :
         ValuesAndMarks(after) # ValuesAndMarks(gameStore) => Inverted(gameStore, after)

\* redo after undo gives back cube, masks, cellsFilled, history and redoStack
UndoRedone ==
  \A redone \in {redo(undo(gameStore))} :
    /\ redone.gameState[1].cube = gameStore.gameState[1].cube
    /\ redone.validator = gameStore.validator
    /\ redone.gameState[1].stats.cellsFilled = gameStore.gameState[1].stats.cellsFilled
    /\ redone.gameState[1].history = gameStore.gameState[1].history
    /\ redone.gameState[1].redoStack = gameStore.gameState[1].redoStack

\* C21: a setCellValue that places or clears a value, or a togglePencilMark
\* that toggles a note, followed by undo leaves every cell's value and
\* pencil marks, the masks and stats.cellsFilled as before the action; and
\* undo followed by redo restores cube, masks, cellsFilled, history and
\* redoStack to their state before the undo.
C21_UndoInverts ==
  gameStore.gameState # Null => (ActionsInverted /\ UndoRedone)

\* C21 for an undo that has an entry to take back: as above, with undo
\* followed by redo restoring the state when history is not empty.
C21_UndoOfEntryInverts ==
  gameStore.gameState # Null =>
    /\ ActionsInverted
    /\ Len(gameStore.gameState[1].history) > 0 => UndoRedone

\* a game with a value placed and a note toggled after it, both still in
\* history, and a placement and a toggle within reach that undo takes back
C21_Witness ==
  /\ gameStore.gameState # Null
  /\ Len(gameStore.gameState[1].history) = 2
  /\ gameStore.gameState[1].history[1].type = "setValue"
  /\ gameStore.gameState[1].history[2].type = "togglePencilMark"
  /\ undo(gameStore) # gameStore
  /\ redo(undo(gameStore)) = gameStore
  /\ \E pos \in StoreCells :
       /\ GameCell(pos).value = 0
       /\ setCellValue(gameStore, pos, GameCell(pos).solution) # gameStore
       /\ ValuesAndMarks(undo(setCellValue(gameStore, pos, GameCell(pos).solution)))
            = ValuesAndMarks(gameStore)

\* C25: in every state of a game, stats.cellsFilled is the number of cells
\* that are not given and hold a value, so stats.cellsFilled +
\* countEmptyCells(cube) = stats.totalEmpty and 0 <= stats.cellsFilled <=
\* stats.totalEmpty.
C25_CellsFilledCounts ==
  gameStore.gameState # Null =>
    /\ gameStore.gameState[1].stats.cellsFilled
         = Cardinality({p \in Positions : ~GameCell(p).isGiven /\ GameCell(p).value # 0})
    /\ gameStore.gameState[1].stats.cellsFilled + countEmptyCells(gameStore.gameState[1].cube)
         = gameStore.gameState[1].stats.totalEmpty
    /\ 0 <= gameStore.gameState[1].stats.cellsFilled
    /\ gameStore.gameState[1].stats.cellsFilled <= gameStore.gameState[1].stats.totalEmpty

\* two cells were filled and the second taken back by undo: one cell is
\* counted, an entry waits on each stack
C25_Witness ==
  /\ gameStore.gameState # Null
  /\ gameStore.gameState[1].stats.cellsFilled = 1
  /\ Len(gameStore.gameState[1].history) = 1
  /\ Len(gameStore.gameState[1].redoStack) = 1
  /\ gameStore.gameState[1].redoStack[1].type = "setValue"
  /\ gameStore.gameState[1].history[1].type = "setValue"
  /\ gameStore.gameState[1].stats.totalEmpty > 1

(***************************************************************************)
(* The end of a game.  After newGame the player has filled in, by          *)
(* setCellValue in the order of the scan, every cell that is not given but *)
(* for the cells of StoreCells; play goes on from there.  The expert tier  *)
(* allows one error.                                                       *)
(***************************************************************************)
\* setCellValue(pos, cell.solution) for every cell outside `left`
filledBut(store, left) ==
  ForUp(LAMBDA st, k :
          IF ScanPosition(k) \in left THEN st
          ELSE setCellValue(st, ScanPosition(k), CellAt(st.gameState[1].cube, k).solution),
        store, 0, LastScan)

\* the games at their end, over the numeric seeds
EndgameStores ==
  {filledBut(newGame(StoreNull, newGameTry(diff, seed, ClockUnread, ClockUnread)), StoreCells) :
     diff \in StoreDifficulties, seed \in StoreSeedArgs}

EndgameInit ==
  /\ gen = GenIdle
  /\ board = createEmptyCube
  /\ validator = NewValidator
  /\ probe = ProbeIdle
  /\ coord = CoordIdle
  /\ carve = CarveIdle
  /\ twin = TwinIdle
  /\ fill = FillIdle
  /\ gameStore \in EndgameStores
  /\ daily = <<>>
  /\ query = QueryIdle

\* the number of entries history held when the end of the game began: one
\* for each empty cell outside StoreCells
EndgameBase ==
  gameStore.gameState[1].stats.totalEmpty
    - Cardinality({p \in StoreCells : ~GameCell(p).isGiven})

\* the history may take another entry, the error tally another error
RoomAtEnd ==
  /\ Len(gameStore.gameState[1].history) + Len(gameStore.gameState[1].redoStack)
       < EndgameBase + MaxEndgameMoves
  /\ gameStore.gameState[1].stats.errors < MaxEndgameErrors

LastSetCellValue ==
  /\ RoomAtEnd
  /\ \E pos \in StoreCells, value \in 0 .. N : gameStore' = setCellValue(gameStore, pos, value)
  /\ UNCHANGED <<gen, board, validator, probe, coord, carve, twin, fill, daily, query>>

LastUseHint ==
  /\ RoomAtEnd
  /\ gameStore.gameState[1].stats.hints < MaxHintTally
  /\ gameStore' = useHint(gameStore)
  /\ UNCHANGED <<gen, board, validator, probe, coord, carve, twin, fill, daily, query>>

\* undo(), of an entry made at the end of the game
LastUndo ==
  /\ Len(gameStore.gameState[1].history) > EndgameBase
  /\ gameStore' = undo(gameStore)
  /\ UNCHANGED <<gen, board, validator, probe, coord, carve, twin, fill, daily, query>>

EndgameNext ==
  \/ SelectCell
  \/ LastSetCellValue
  \/ LastUseHint
  \/ LastUndo
  \/ Redo

SpecEndgame == EndgameInit /\ [][EndgameNext]_vars

\* C26: gameState.isComplete is true exactly when isPuzzleComplete(cube)
\* holds, after whatever setCellValue, useHint, undo and redo calls: true
\* once the last cell is filled correctly, never true while a cell's value
\* differs from its solution.
C26_CompleteFlagExact ==
  gameStore.gameState # Null =>
    /\ gameStore.gameState[1].isComplete = isPuzzleComplete(gameStore.gameState[1].cube)
    /\ gameStore.gameState[1].isComplete =>
         \A p \in Positions : GameCell(p).value = GameCell(p).solution

\* isGameOver: stats.errors >= maxErrors of the game's difficulty
isGameOver ==
  /\ gameStore.gameState # Null
  /\ gameStore.gameState[1].stats.errors
       >= DIFFICULTY_CONFIGS[gameStore.gameState[1].difficulty].maxErrors

\* C27: stats.errors never exceeds the difficulty's maxErrors, and once it
\* has reached maxErrors (isGameOver) no setCellValue, useHint, undo or redo
\* call changes stats.errors or any cell value.
C27_GameOverFreezes ==
  /\ [](gameStore.gameState # Null =>
          gameStore.gameState[1].stats.errors
            <= DIFFICULTY_CONFIGS[gameStore.gameState[1].difficulty].maxErrors)
  /\ [][(isGameOver /\ (LastSetCellValue \/ LastUseHint \/ LastUndo \/ Redo)) =>
          /\ gameStore'.gameState[1].stats.errors = gameStore.gameState[1].stats.errors
          /\ ~ValueChanged]_vars

(***************************************************************************)
(* Daily challenges.  A reading of the clock is the local calendar date    *)
(* new Date() shows and the milliseconds Date.now() returns; the days are  *)
(* 1 November 2026 and those after it.                                     *)
(***************************************************************************)
ClockReadings ==
  {[date |-> [year |-> 2026, month |-> 10, date |-> 1 + d],
    now |-> <<835, 364000000 + 86400000 * d + t>>] :
     d \in 0 .. MaxDay, t \in 1 .. MaxClock}

\* startDailyChallenge() at each reading: newGame('medium', getDailySeed())
DailyTries ==
  {[date |-> r.date,
    try |-> newGameTry("medium", getDailySeed(r.date), r.now, r.now)] : r \in ClockReadings}

\* the daily challenges begun so far, the last two of them, with one more
Begun(log, date, try) ==
  IF try.threw THEN log
  ELSE IF Len(log) < 2 THEN Append(log, [date |-> date, cube |-> try.gameState[1].cube])
  ELSE <<log[2], [date |-> date, cube |-> try.gameState[1].cube]>>

StartDailyChallenge ==
  /\ \E t \in DailyTries :
       /\ gameStore' = newGame(gameStore, t.try)
       /\ daily' = Begun(daily, t.date, t.try)
  /\ UNCHANGED <<gen, board, validator, probe, coord, carve, twin, fill, query>>

DailyNext == StartDailyChallenge \/ NewGame \/ ResetGame

SpecDaily == StoreInit /\ [][DailyNext]_vars

\* C7: two daily challenges started on the same calendar date begin with
\* cubes that have the same solution digit and the same given / empty
\* pattern at every coordinate, whatever the clock read at each start.
C7_SameDaySamePuzzle ==
  (Len(daily) = 2 /\ daily[1].date = daily[2].date) =>
    \A p \in Positions :
      /\ daily[1].cube[p.z][p.y][p.x].solution = daily[2].cube[p.z][p.y][p.x].solution
      /\ daily[1].cube[p.z][p.y][p.x].isGiven = daily[2].cube[p.z][p.y][p.x].isGiven

(***************************************************************************)
(* SeededRandom on its own: an instance whose state is an integer of       *)
(* 0..2^31-1, on which nextInt(min, max) and shuffle(array) are called.    *)
(* The states are the low ones, both ends of the range, the two states     *)
(* below 2^23 whose successors are the largest, and 230538014, the one     *)
(* state s with (s * 1103515245 + 12345) mod 2^31 = 0x7fffffff.            *)
(***************************************************************************)
RngStateList ==
  <<230538014, 1114082, Mask31, Mask31 - 1, 3031773>>

RngStates ==
  (0 .. MaxRngState) \cup {RngStateList[k] : k \in 1 .. Len(RngStateList)}

\* the arguments <<min, max>> of nextInt
RngRangeList ==
  << <<0, 729>>, <<0, 9>>, <<0, 1>>, <<0 - 3, 4>>, <<5, 6>>, <<0, 32767>>,
     <<0, 2>>, <<0, 3>>, <<0 - 729, 0>>, <<100, 829>> >>

RngRanges ==
  {RngRangeList[k] : k \in 1 .. (IF MaxRngRange < Len(RngRangeList)
                                 THEN MaxRngRange ELSE Len(RngRangeList))}

\* the arrays shuffled: the digit map and the band permutation of
\* generator.ts, arrays of no and of one element, an array that holds an
\* element twice, and the 729 cell numbers of difficulty.ts
RngArrays ==
  {Array(<<1, 2, 3, 4, 5, 6, 7, 8, 9>>), Array(<<0, 1, 2>>), Array(<<>>),
   Array(<<4>>), Array(<<7, 7, 8, 7>>), [k \in 0 .. 728 |-> k]}

RngInit ==
  /\ gen = GenIdle
  /\ board = createEmptyCube
  /\ validator = NewValidator
  /\ probe = ProbeIdle
  /\ twin = TwinIdle
  /\ fill = FillIdle
  /\ gameStore = StoreNull
  /\ daily = <<>>
  /\ coord = CoordIdle
  /\ carve = CarveIdle
  /\ \E s \in RngStates :
       query = [op |-> "new", calls |-> 0, seed |-> <<0, s>>]

\* rng.nextInt(min, max)
NextInt ==
  /\ query.calls < MaxRngCalls
  /\ \E range \in RngRanges :
       LET r == nextInt(query.seed, range[1], range[2])
       IN query' = [op |-> "nextInt", calls |-> query.calls + 1, seed |-> r[1],
                    before |-> query.seed, min |-> range[1], max |-> range[2],
                    value |-> r[2]]
  /\ UNCHANGED <<gen, board, validator, probe, coord, carve, twin, fill, gameStore, daily>>

\* rng.shuffle(array)
Shuffle ==
  /\ query.calls < MaxRngCalls
  /\ \E array \in RngArrays :
       LET r == shuffle(query.seed, array)
       IN query' = [op |-> "shuffle", calls |-> query.calls + 1, seed |-> r.seed,
                    before |-> query.seed, array |-> array, arr |-> r.arr]
  /\ UNCHANGED <<gen, board, validator, probe, coord, carve, twin, fill, gameStore, daily>>

RngNext == NextInt \/ Shuffle

SpecRng == RngInit /\ [][RngNext]_vars

\* how often the element v stands in the array arr
TimesIn(arr, v) == Cardinality({k \in DOMAIN arr : arr[k] = v})

\* arr has the indices of array and holds every element as often as array
\* does; when no element of array is repeated, holding the same elements on
\* the same indices is enough
IsRearranged(arr, array) ==
  /\ DOMAIN arr = DOMAIN array
  /\ LET elements == {array[k] : k \in DOMAIN array}
     IN /\ {arr[k] : k \in DOMAIN arr} = elements
        /\ Cardinality(elements) < Cardinality(DOMAIN array) =>
             \A v \in elements : TimesIn(arr, v) = TimesIn(array, v)

\* C30: for every state of SeededRandom in 0..2^31-1 and all integers
\* min < max, nextInt(min, max) returns an integer r with min <= r <= max-1:
\* the state after next() is never 0x7fffffff, so next() is below 1 and
\* floor(next() * (max - min)) is below max - min; and shuffle returns an
\* array of the length of its input that holds every element as often as the
\* input does.
C30_NextIntInRange ==
  /\ query.seed[1] = 0
  /\ query.seed[2] \in 0 .. Mask31
  /\ query.op = "nextInt" =>
       /\ query.min < query.max
       /\ query.seed[2] # Mask31
       /\ query.value \in query.min .. (query.max - 1)
  /\ query.op = "shuffle" => IsRearranged(query.arr, query.array)

\* nextInt(0, 729) in the state 1114082, whose successor 2147483507 is the
\* highest that a state below 2^23 has, returns 728, the top of its range
C30_Witness ==
  /\ query.op = "nextInt"
  /\ query.before = <<0, 1114082>>
  /\ query.seed = <<0, 2147483507>>
  /\ query.min = 0
  /\ query.max = 729
  /\ query.value = 728

=============================================================================
